---- MODULE Spec2Model ----
(***************************************************************************)
(* Trading engine of conjual: lifecycle state machine, periodic loop,      *)
(* risk gate, paper ledger and Smart-DCA strategy.                         *)
(*                                                                         *)
(* The engine runs on a single-threaded cooperative scheduler (asyncio):   *)
(* code between two awaits that really suspend is one atomic action.       *)
(* Quantities: CLP amounts are integers in 1/MoneyScale CLP, BTC amounts   *)
(* in satoshi, prices in (1/MoneyScale CLP) per satoshi, time in minutes.  *)
(***************************************************************************)
EXTENDS Integers, Sequences, FiniteSets, TLC

\* ---------------------------------------------------------------- bounds
MaxTasks == 2
MaxStops == 1
MaxLoops == 2
MaxTicks == 1
MaxErrLoops == 12
MaxSignalLoops == 3
MaxTrades == 3
MaxRiskTicks == 2
MaxRecorded == 4

\* ------------------------------------------------------ program constants
MoneyScale == 1000
ErrorThreshold == 10
PaperInitialBalanceClp == 20000 * MoneyScale
MinBalanceClp == 5000 * MoneyScale
MaxSingleTradePct == 25
TradeCooldownMinutes == 30
MaxDailyTrades == 3
DayMinutes == 24 * 60
FeePerMille == 8
FeeGuardAmountClp == 10000 * MoneyScale
FeeGuardPerMille == 20
RsiOverbought == 70
RsiOversold == 30
BaseAmountPct == 10
AccelerateAmountPct == 15
AmountPctCap == 25
DcaIntervalMinutes == 72 * 60

NoTime == -1

EngineState == {"stopped", "starting", "running", "paused", "stopping", "error"}

\* inputs
NoBalances == [clp |-> 0, btc |-> 0]
Balances ==
    {NoBalances, [clp |-> 20000 * MoneyScale, btc |-> 0],
     [clp |-> 80000 * MoneyScale, btc |-> 0]}
StrategyIds == {"smart_dca", "grid"}
\* the candle series the exchange returns, as its RSI(14) and last close
Market ==
    {[rsi |-> 20, price |-> 800], [rsi |-> 50, price |-> 800],
     [rsi |-> 80, price |-> 1000]}
TimeSteps == {TradeCooldownMinutes}

VARIABLES
    trading_enabled,   \* settings.TRADING_ENABLED
    api_keys,          \* settings.BUDA_API_KEY and BUDA_API_SECRET are set
    state,             \* TradingEngine.state
    current_strategy,  \* TradingEngine.current_strategy ("none" for None)
    paper_trading,     \* TradingEngine.paper_trading
    task,              \* TradingEngine._task: "none", "live" or "done"
    should_run,        \* TradingEngine._should_run
    exchange,          \* TradingEngine._exchange
    paper_service,     \* TradingEngine._paper_service
    risk_manager,      \* TradingEngine._risk_manager
    strategy,          \* TradingEngine._strategy
    stats,             \* TradingEngine.stats
    tasks,             \* the _main_loop tasks of the event loop
    stops,             \* stop() calls in flight
    now,               \* datetime.utcnow(), minutes
    ticks,             \* number of clock advances so far
    ret,               \* the last call to return, and what it returned
    quiet              \* a stop() of a live engine returned, no start() since

vars == <<trading_enabled, api_keys, state, current_strategy, paper_trading,
          task, should_run, exchange, paper_service, risk_manager, strategy,
          stats, tasks, stops, now, ticks, ret, quiet>>

config == <<trading_enabled, api_keys>>
components == <<exchange, paper_service, risk_manager, strategy>>

\* ------------------------------------------------------------ components
\* ExchangeService(): conn is the lazily created ccxt instance
NewExchange == [present |-> TRUE, conn |-> FALSE]
NoExchange == [present |-> FALSE, conn |-> FALSE]

\* RiskManager.__init__
NewRiskManager ==
    [present |-> TRUE, last_trade_time |-> NoTime, daily_trades |-> <<>>,
     fee_per_mille |-> FeePerMille]
NoRiskManager ==
    [present |-> FALSE, last_trade_time |-> NoTime, daily_trades |-> <<>>,
     fee_per_mille |-> FeePerMille]

\* PaperTradingService.__init__ / PaperPortfolio
NewPaperService ==
    [present |-> TRUE,
     balance_clp |-> PaperInitialBalanceClp,
     balance_btc |-> 0,
     total_invested_clp |-> 0,
     total_btc_bought |-> 0,
     avg_buy_price |-> 0,
     trades |-> <<>>,
     trade_counter |-> 0,
     fee_per_mille |-> FeePerMille]
NoPaperService ==
    [present |-> FALSE,
     balance_clp |-> 0,
     balance_btc |-> 0,
     total_invested_clp |-> 0,
     total_btc_bought |-> 0,
     avg_buy_price |-> 0,
     trades |-> <<>>,
     trade_counter |-> 0,
     fee_per_mille |-> FeePerMille]

\* SmartDCAStrategy.__init__
NewStrategy ==
    [present |-> TRUE, last_buy_time |-> NoTime,
     base_amount_pct |-> BaseAmountPct,
     accelerate_amount_pct |-> AccelerateAmountPct]
NoStrategy == [NewStrategy EXCEPT !.present = FALSE]

\* a call of start, stop, pause or resume that has returned
Ret(op, ok) == [op |-> op, ok |-> ok]

\* stats["last_action"]: the text and, for a rejection, the reason in it
Act(kind, detail) == [kind |-> kind, detail |-> detail]
NoAction == Act("none", "none")

\* TradingEngine.__init__: stats (last_rsi, last_price, last_action_time and
\* last_signal_reason only echo the inputs of an iteration and are left out)
InitStats ==
    [total_trades |-> 0, wins |-> 0, losses |-> 0, total_profit_clp |-> 0,
     start_time |-> NoTime, last_action |-> NoAction,
     last_signal |-> "none", loop_count |-> 0, errors |-> 0]

\* a loop task: pc is the await the coroutine is suspended on, cancel a
\* pending Task.cancel(), the rest the locals it still needs.  A finished
\* task leaves the table: slot 1 holds the task TradingEngine._task refers
\* to while it runs, the slots after it the tasks the engine no longer
\* refers to, without gaps
Loop(pc, cancel, rsi, price, side, amount) ==
    [pc |-> pc, cancel |-> cancel, rsi |-> rsi, price |-> price,
     side |-> side, amount |-> amount]
NoLoop == Loop("none", FALSE, 0, 0, "none", 0)
NewLoop == Loop("new", FALSE, 0, 0, "none", 0)

Alive(t) == tasks[t].pc # "none"

\* a stop() call in flight: pc is the await it is suspended on ("joined":
\* the awaited task has finished), task the slot of the awaited task, own
\* whether the exchange being closed is still TradingEngine._exchange, live
\* whether it was called on a Running, Paused or Starting engine
Stop(pc, t, own, live) == [pc |-> pc, task |-> t, own |-> own, live |-> live]

StopKey(r) ==
    (CASE r.pc = "await_task" -> 0 [] r.pc = "joined" -> 100
       [] r.pc = "await_close" -> 200)
    + 10 * r.task + (IF r.own THEN 2 ELSE 0) + (IF r.live THEN 1 ELSE 0)

\* calls in the same position are interchangeable: keep them in one order
Sorted(st) == SortSeq(st, LAMBDA a, b : StopKey(a) < StopKey(b))

\* task t finishes: its slot is freed, the stop() calls awaiting it wake
TasksWithout(tk, t) ==
    [i \in 1..MaxTasks |->
        IF t = 1 \/ i < t THEN (IF i = t THEN NoLoop ELSE tk[i])
        ELSE IF i < MaxTasks THEN tk[i + 1] ELSE NoLoop]

StopsWithout(st, t) ==
    Sorted([i \in 1..Len(st) |->
               IF st[i].pc = "await_task" /\ st[i].task = t
               THEN Stop("joined", 0, st[i].own, st[i].live)
               ELSE IF st[i].pc = "await_task" /\ t > 1 /\ st[i].task > t
               THEN Stop(st[i].pc, st[i].task - 1, st[i].own, st[i].live)
               ELSE st[i]])

\* a new task becomes TradingEngine._task; a predecessor still running moves
\* to the tasks nobody refers to
TasksWithNew(tk) ==
    IF tk[1].pc = "none"
    THEN [tk EXCEPT ![1] = NewLoop]
    ELSE [i \in 1..MaxTasks |-> IF i = 1 THEN NewLoop ELSE tk[i - 1]]

StopsWithNew(tk, st) ==
    Sorted([i \in 1..Len(st) |->
               Stop(st[i].pc,
                    IF st[i].pc = "await_task" /\ tk[1].pc # "none"
                    THEN st[i].task + 1 ELSE st[i].task,
                    FALSE, st[i].live)])

Init ==
    /\ trading_enabled \in BOOLEAN
    /\ api_keys \in BOOLEAN
    /\ state = "stopped"
    /\ current_strategy = "none"
    /\ paper_trading = TRUE
    /\ task = "none"
    /\ should_run = FALSE
    /\ exchange = NoExchange
    /\ paper_service = NoPaperService
    /\ risk_manager = NoRiskManager
    /\ strategy = NoStrategy
    /\ stats = InitStats
    /\ tasks = [i \in 1..MaxTasks |-> NoLoop]
    /\ stops = <<>>
    /\ now = 0
    /\ ticks = 0
    /\ ret = Ret("none", TRUE)
    /\ quiet = FALSE

\* ------------------------------------------------------------ paper ledger
\* PaperTrade records; before the buy record, one that carries the amount
\* net of the fee
BuyTradeNet(btc, price, amount, fee, bal_clp, bal_btc) ==
    [side |-> "buy", amount_btc |-> btc, price_clp |-> price,
     amount_clp |-> amount - fee, fee_clp |-> fee,
     balance_clp_after |-> bal_clp, balance_btc_after |-> bal_btc]

BuyTrade(btc, price, amount, fee, bal_clp, bal_btc) ==
    [side |-> "buy", amount_btc |-> btc, price_clp |-> price,
     amount_clp |-> amount, fee_clp |-> fee,
     balance_clp_after |-> bal_clp, balance_btc_after |-> bal_btc]

\* (before the sell record, one that carries the proceeds before the fee)
SellTradeGross(btc, price, net, fee, bal_clp, bal_btc) ==
    [side |-> "sell", amount_btc |-> btc, price_clp |-> price,
     amount_clp |-> net + fee, fee_clp |-> fee,
     balance_clp_after |-> bal_clp, balance_btc_after |-> bal_btc]

SellTrade(btc, price, net, fee, bal_clp, bal_btc) ==
    [side |-> "sell", amount_btc |-> btc, price_clp |-> price,
     amount_clp |-> net, fee_clp |-> fee,
     balance_clp_after |-> bal_clp, balance_btc_after |-> bal_btc]

\* amount * fee_pct, the rate in thousandths: the product, to 1/1000 CLP
PerMille(amount, rate) ==
    (amount \div 1000) * rate + ((amount % 1000) * rate) \div 1000

\* execute_buy, "Update average buy price (weighted average)"; before it,
\* the plain mean of the old average and the new price
plain_mean_buy_price(ps, btc_bought, price_clp) ==
    (ps.avg_buy_price + price_clp) \div 2

average_buy_price(ps, btc_bought, price_clp) ==
    LET old_total == ps.total_btc_bought * ps.avg_buy_price
        new_total == btc_bought * price_clp
        total_btc == ps.total_btc_bought + btc_bought
    IN  IF total_btc > 0
        THEN (old_total + new_total) \div total_btc
        ELSE ps.avg_buy_price

\* PaperTradingService.execute_buy: [ok, svc]; the trade returned is the
\* last element of svc.trades
\* (first, a test that also turns away a buy of the whole balance, and one
\* that does not look at the balance)
BuyRejectedAtBalance(ps, amount_clp) ==
    amount_clp <= 0 \/ amount_clp >= ps.balance_clp

BuyRejectedNonPositive(ps, amount_clp) == amount_clp <= 0

BuyRejected(ps, amount_clp) ==
    amount_clp <= 0 \/ amount_clp > ps.balance_clp

execute_buy(ps, amount_clp, price_clp) ==
    IF BuyRejected(ps, amount_clp)
    THEN [ok |-> FALSE, svc |-> ps]
    ELSE LET fee_clp == PerMille(amount_clp, ps.fee_per_mille)
             net_amount_clp == amount_clp - fee_clp
             btc_bought == net_amount_clp \div price_clp
             bal_clp == ps.balance_clp - amount_clp
             bal_btc == ps.balance_btc + btc_bought
             total_btc == ps.total_btc_bought + btc_bought
             avg == average_buy_price(ps, btc_bought, price_clp)
         IN  [ok |-> TRUE,
              svc |-> [ps EXCEPT
                        !.balance_clp = bal_clp,
                        !.balance_btc = bal_btc,
                        !.total_btc_bought = total_btc,
                        !.total_invested_clp = ps.total_invested_clp + amount_clp,
                        !.avg_buy_price = avg,
                        !.trade_counter = ps.trade_counter + 1,
                        !.trades = Append(ps.trades,
                            BuyTrade(btc_bought, price_clp, amount_clp, fee_clp,
                                     bal_clp, bal_btc))]]

\* PaperTradingService.execute_sell
\* (first, a test that also turns away a sale of the whole balance)
SellRejectedAtBalance(ps, amount_btc) ==
    amount_btc <= 0 \/ amount_btc >= ps.balance_btc

SellRejected(ps, amount_btc) ==
    amount_btc <= 0 \/ amount_btc > ps.balance_btc

\* (first, a sale that takes the BTC sold out of total_btc_bought)
execute_sell_reducing(ps, amount_btc, price_clp) ==
    IF SellRejected(ps, amount_btc)
    THEN [ok |-> FALSE, svc |-> ps]
    ELSE LET gross_clp == amount_btc * price_clp
             fee_clp == PerMille(gross_clp, ps.fee_per_mille)
             net_clp == gross_clp - fee_clp
             bal_btc == ps.balance_btc - amount_btc
             bal_clp == ps.balance_clp + net_clp
         IN  [ok |-> TRUE,
              svc |-> [ps EXCEPT
                        !.balance_btc = bal_btc,
                        !.balance_clp = bal_clp,
                        !.total_btc_bought = @ - amount_btc,
                        !.trade_counter = ps.trade_counter + 1,
                        !.trades = Append(ps.trades,
                            SellTrade(amount_btc, price_clp, net_clp, fee_clp,
                                      bal_clp, bal_btc))]]

execute_sell(ps, amount_btc, price_clp) ==
    IF SellRejected(ps, amount_btc)
    THEN [ok |-> FALSE, svc |-> ps]
    ELSE LET gross_clp == amount_btc * price_clp
             fee_clp == PerMille(gross_clp, ps.fee_per_mille)
             net_clp == gross_clp - fee_clp
             bal_btc == ps.balance_btc - amount_btc
             bal_clp == ps.balance_clp + net_clp
         IN  [ok |-> TRUE,
              svc |-> [ps EXCEPT
                        !.balance_btc = bal_btc,
                        !.balance_clp = bal_clp,
                        !.trade_counter = ps.trade_counter + 1,
                        !.trades = Append(ps.trades,
                            SellTrade(amount_btc, price_clp, net_clp, fee_clp,
                                      bal_clp, bal_btc))]]

\* PaperTradingService.get_portfolio / PaperPortfolio.to_dict: the values go
\* through a double, which holds every amount of this model exactly
get_portfolio(ps) ==
    [balance_clp |-> ps.balance_clp, balance_btc |-> ps.balance_btc,
     avg_buy_price |-> ps.avg_buy_price]

\* sums over the trade records of one side: amount_clp, and amount_btc
RECURSIVE SumClp(_, _)
SumClp(trades, side) ==
    IF trades = <<>> THEN 0
    ELSE (IF Head(trades).side = side THEN Head(trades).amount_clp ELSE 0)
         + SumClp(Tail(trades), side)

RECURSIVE SumBtc(_, _)
SumBtc(trades, side) ==
    IF trades = <<>> THEN 0
    ELSE (IF Head(trades).side = side THEN Head(trades).amount_btc ELSE 0)
         + SumBtc(Tail(trades), side)

\* list[start:] of Python: a negative start counts from the end, and both
\* ends are clamped to the list
SliceFrom(seq, start) ==
    LET from == IF start < 0
                THEN (IF Len(seq) + start < 0 THEN 0 ELSE Len(seq) + start)
                ELSE (IF start > Len(seq) THEN Len(seq) ELSE start)
    IN  SubSeq(seq, from + 1, Len(seq))

Reversed(seq) == [i \in 1..Len(seq) |-> seq[Len(seq) + 1 - i]]

\* the record get_trade_history returns for a trade; its id is the value
\* of _trade_counter when it was executed, that is its place in trades
TradeDict(t, id) ==
    [id |-> id, side |-> t.side, amount_btc |-> t.amount_btc,
     price_clp |-> t.price_clp, amount_clp |-> t.amount_clp,
     fee_clp |-> t.fee_clp]

\* PaperTradingService.get_trade_history: trades[-limit:], newest first
get_trade_history(ps, limit) ==
    LET dicts == [i \in 1..Len(ps.trades) |-> TradeDict(ps.trades[i], i)]
    IN  Reversed(SliceFrom(dicts, 0 - limit))

\* ------------------------------------------------------------ risk manager
\* RiskManager._cleanup_daily_trades; before the window test, one that
\* keeps a trade that is exactly 24 hours old
InWindowInclusive(t, at) == t >= at - DayMinutes

InWindow(t, at) == t > at - DayMinutes

cleanup_daily_trades(rm, at) ==
    [rm EXCEPT !.daily_trades = SelectSeq(rm.daily_trades, LAMBDA t : InWindow(t, at))]

DailyLimitReached(rm) == Len(rm.daily_trades) >= MaxDailyTrades

\* (first, a cooldown that still holds when exactly the cooldown time has
\* passed)
CooldownActiveInclusive(rm, at) ==
    /\ rm.last_trade_time # NoTime
    /\ at - rm.last_trade_time <= TradeCooldownMinutes

CooldownActive(rm, at) ==
    /\ rm.last_trade_time # NoTime
    /\ at - rm.last_trade_time < TradeCooldownMinutes

\* RiskManager.validate_buy: the reason of the first rule that fails
\* (first, one that tests the percentage ceiling before the minimum balance)
BuyReasonPctFirst(rm, amount_clp, balance_clp, at) ==
    LET fee_amount == PerMille(amount_clp, rm.fee_per_mille)
    IN  IF DailyLimitReached(rm) THEN "daily_limit"
        ELSE IF CooldownActive(rm, at) THEN "cooldown"
        ELSE IF amount_clp > (balance_clp * MaxSingleTradePct) \div 100
             THEN "exceeds_pct"
        ELSE IF balance_clp - amount_clp < MinBalanceClp
             THEN IF balance_clp - MinBalanceClp <= 0
                  THEN "insufficient_balance" ELSE "exceeds_min_balance"
        ELSE IF /\ amount_clp < FeeGuardAmountClp
                /\ amount_clp > 0
                /\ fee_amount * 1000 > FeeGuardPerMille * amount_clp
             THEN "fee_impact"
        ELSE "approved"

BuyReason(rm, amount_clp, balance_clp, at) ==
    LET fee_amount == PerMille(amount_clp, rm.fee_per_mille)
    IN  IF DailyLimitReached(rm) THEN "daily_limit"
        ELSE IF CooldownActive(rm, at) THEN "cooldown"
        ELSE IF balance_clp - amount_clp < MinBalanceClp
             THEN IF balance_clp - MinBalanceClp <= 0
                  THEN "insufficient_balance" ELSE "exceeds_min_balance"
        ELSE IF amount_clp > (balance_clp * MaxSingleTradePct) \div 100
             THEN "exceeds_pct"
        ELSE IF /\ amount_clp < FeeGuardAmountClp
                /\ amount_clp > 0
                /\ fee_amount * 1000 > FeeGuardPerMille * amount_clp
             THEN "fee_impact"
        ELSE "approved"

\* before validate_buy, one that approves whatever it is asked
approve_buy(rm, amount_clp, balance_clp, current_price, at) ==
    [approved |-> TRUE, reason |-> "approved",
     rm |-> cleanup_daily_trades(rm, at)]

validate_buy(rm, amount_clp, balance_clp, current_price, at) ==
    LET cleaned == cleanup_daily_trades(rm, at)
        reason == BuyReason(cleaned, amount_clp, balance_clp, at)
    IN  [approved |-> reason = "approved", reason |-> reason, rm |-> cleaned]

\* RiskManager.validate_sell: the reason of the first rule that fails; past
\* the rules, gain_pct divides by avg_buy_price and raises on a zero.
\* Before it, one without the rule against selling at a loss
SellReasonAtLoss(rm, amount_btc, balance_btc, current_price, avg_buy_price, at) ==
    IF DailyLimitReached(rm) THEN "daily_limit"
    ELSE IF CooldownActive(rm, at) THEN "cooldown"
    ELSE IF amount_btc > balance_btc THEN "insufficient_btc"
    ELSE IF avg_buy_price = 0 THEN "division_by_zero"
    ELSE "approved"

SellReason(rm, amount_btc, balance_btc, current_price, avg_buy_price, at) ==
    IF DailyLimitReached(rm) THEN "daily_limit"
    ELSE IF CooldownActive(rm, at) THEN "cooldown"
    ELSE IF amount_btc > balance_btc THEN "insufficient_btc"
    ELSE IF current_price < avg_buy_price THEN "hodl"
    ELSE IF avg_buy_price = 0 THEN "division_by_zero"
    ELSE "approved"

validate_sell(rm, amount_btc, balance_btc, current_price, avg_buy_price, at) ==
    LET cleaned == cleanup_daily_trades(rm, at)
        reason == SellReason(cleaned, amount_btc, balance_btc, current_price,
                             avg_buy_price, at)
    IN  [approved |-> reason = "approved", reason |-> reason, rm |-> cleaned,
         raises |-> reason = "division_by_zero"]

\* RiskManager.record_trade; before it, one that enters the trade twice
record_trade_twice(rm, at) ==
    [rm EXCEPT !.last_trade_time = at,
               !.daily_trades = Append(Append(rm.daily_trades, at), at)]

\* (and one that does not enter the trade at all)
record_trade_forgotten(rm, at) == rm

record_trade(rm, at) ==
    [rm EXCEPT !.last_trade_time = at, !.daily_trades = Append(rm.daily_trades, at)]

\* ---------------------------------------------------------------- strategy
\* SmartDCAStrategy._is_dca_time
is_dca_time(st, at) ==
    \/ st.last_buy_time = NoTime
    \/ at - st.last_buy_time >= DcaIntervalMinutes

\* (first, an analyze whose accelerated purchase is not capped)
analyze_uncapped(st, rsi, at) ==
    IF rsi > RsiOverbought
    THEN [signal |-> "hold", suggested_amount_pct |-> 0]
    ELSE IF rsi < RsiOversold
    THEN [signal |-> "buy",
          suggested_amount_pct |->
              st.base_amount_pct + st.accelerate_amount_pct]
    ELSE IF is_dca_time(st, at)
    THEN [signal |-> "buy", suggested_amount_pct |-> st.base_amount_pct]
    ELSE [signal |-> "hold", suggested_amount_pct |-> 0]

\* (and an analyze that takes profit in an overbought market)
analyze_selling(st, rsi, at) ==
    IF rsi > RsiOverbought
    THEN [signal |-> "sell", suggested_amount_pct |-> 50]
    ELSE IF rsi < RsiOversold
    THEN [signal |-> "buy",
          suggested_amount_pct |->
              IF st.base_amount_pct + st.accelerate_amount_pct < AmountPctCap
              THEN st.base_amount_pct + st.accelerate_amount_pct
              ELSE AmountPctCap]
    ELSE IF is_dca_time(st, at)
    THEN [signal |-> "buy", suggested_amount_pct |-> st.base_amount_pct]
    ELSE [signal |-> "hold", suggested_amount_pct |-> 0]

\* SmartDCAStrategy.analyze
analyze(st, rsi, at) ==
    IF rsi > RsiOverbought
    THEN [signal |-> "hold", suggested_amount_pct |-> 0]
    ELSE IF rsi < RsiOversold
    THEN [signal |-> "buy",
          suggested_amount_pct |->
              IF st.base_amount_pct + st.accelerate_amount_pct < AmountPctCap
              THEN st.base_amount_pct + st.accelerate_amount_pct
              ELSE AmountPctCap]
    ELSE IF is_dca_time(st, at)
    THEN [signal |-> "buy", suggested_amount_pct |-> st.base_amount_pct]
    ELSE [signal |-> "hold", suggested_amount_pct |-> 0]

\* SmartDCAStrategy.record_buy
record_buy(st, at) == [st EXCEPT !.last_buy_time = at]

\* ------------------------------------------------------------- lifecycle
\* TradingEngine._initialize_components: the exchange service and the risk
\* manager are replaced, the ledger too in paper mode, before the strategy
\* id is looked at
InitializedExchange == NewExchange
InitializedRiskManager == NewRiskManager
\* (before InitializedPaperService: a ledger that is built only once)
KeptPaperService(paper) ==
    IF paper /\ ~paper_service.present THEN NewPaperService ELSE paper_service

\* (and a ledger whose balance is restored while its trades are kept)
RefilledPaperService(paper) ==
    IF paper
    THEN [NewPaperService EXCEPT !.trades = paper_service.trades]
    ELSE paper_service

InitializedPaperService(paper) == IF paper THEN NewPaperService ELSE paper_service
\* (before KnownStrategy: every strategy id taken for smart_dca)
AnyStrategy(strat) == TRUE

KnownStrategy(strat) == strat = "smart_dca"

\* TradingEngine.start, first guard; before it, the guard letting a Paused
\* engine through as well
StateAllowsStartOrPaused == state \in {"stopped", "error", "paused"}

StateAllowsStart == state \in {"stopped", "error"}

\* TradingEngine.start, second guard; before it, the guard left out
ModeAlwaysAllowed(paper) == TRUE

\* (and one that takes the exchange API keys for permission to trade)
ModeAllowedWithKeys(paper) == paper \/ trading_enabled \/ api_keys

ModeAllowed(paper) == paper \/ trading_enabled

\* TradingEngine.start
start(strat, paper) ==
    IF ~(StateAllowsStart /\ ModeAllowed(paper))
    THEN /\ ret' = Ret("start", FALSE)
         /\ UNCHANGED <<config, state, current_strategy, paper_trading, task,
                        should_run, components, stats, tasks, stops, now, ticks,
                        quiet>>
    ELSE /\ current_strategy' = strat
         /\ paper_trading' = paper
         /\ should_run' = TRUE
         /\ exchange' = InitializedExchange
         /\ risk_manager' = InitializedRiskManager
         /\ paper_service' = InitializedPaperService(paper)
         /\ IF KnownStrategy(strat)
            THEN /\ tasks[1].pc = "none" \/ tasks[MaxTasks].pc = "none"
                 /\ strategy' = NewStrategy
                 /\ task' = "live"
                 /\ tasks' = TasksWithNew(tasks)
                 /\ stops' = StopsWithNew(tasks, stops)
                 /\ state' = "running"
                 /\ stats' = [stats EXCEPT !.start_time = now]
                 /\ ret' = Ret("start", TRUE)
                 /\ quiet' = FALSE
            ELSE /\ state' = "error"
                 /\ stops' = StopsWithNew([tasks EXCEPT ![1] = NoLoop], stops)
                 /\ ret' = Ret("start", FALSE)
                 /\ UNCHANGED <<strategy, task, tasks, stats, quiet>>
         /\ UNCHANGED <<config, now, ticks>>

\* TradingEngine.pause; before its guard, one that lets every engine that
\* is not Stopped or Paused be paused
PauseAllowedUnlessStopped == state \notin {"stopped", "paused"}

PauseAllowed == state = "running"

pause ==
    IF ~PauseAllowed
    THEN /\ ret' = Ret("pause", FALSE)
         /\ UNCHANGED <<config, state, current_strategy, paper_trading, task,
                        should_run, components, stats, tasks, stops, now, ticks,
                        quiet>>
    ELSE /\ state' = "paused"
         /\ ret' = Ret("pause", TRUE)
         /\ UNCHANGED <<config, current_strategy, paper_trading, task,
                        should_run, components, stats, tasks, stops, now, ticks,
                        quiet>>

\* TradingEngine.resume; before its guard, one that only refuses a Running
\* engine
ResumeAllowedUnlessRunning == state # "running"

ResumeAllowed == state = "paused"

resume ==
    IF ~ResumeAllowed
    THEN /\ ret' = Ret("resume", FALSE)
         /\ UNCHANGED <<config, state, current_strategy, paper_trading, task,
                        should_run, components, stats, tasks, stops, now, ticks,
                        quiet>>
    ELSE /\ state' = "running"
         /\ ret' = Ret("resume", TRUE)
         /\ UNCHANGED <<config, current_strategy, paper_trading, task,
                        should_run, components, stats, tasks, stops, now, ticks,
                        quiet>>

\* ------------------------------------------------------------ loop body
\* what one run of loop code leaves behind: the engine fields it may write
\* and where the coroutine suspends next
Outcome(st8, ps, rm, st, sts, pc, side, amount) ==
    [state |-> st8, ps |-> ps, rm |-> rm, st |-> st, stats |-> sts,
     pc |-> pc, side |-> side, amount |-> amount]

\* _main_loop: except Exception; before the threshold test, one that gives
\* up on reaching the threshold
ErrorExitAtThreshold(errors) == errors >= ErrorThreshold

\* (and one that gives up only at the exception that first passes it)
ErrorExitOnce(errors) == errors = ErrorThreshold + 1

ErrorExit(errors) == errors > ErrorThreshold

OnException(sts) ==
    LET counted == [sts EXCEPT !.errors = @ + 1,
                               !.last_action = Act("error", "none")]
    IN  IF ErrorExit(counted.errors)
        THEN Outcome("error", paper_service, risk_manager, strategy, counted,
                     "done", "none", 0)
        ELSE Outcome(state, paper_service, risk_manager, strategy, counted,
                     "sleep_backoff", "none", 0)

\* ExchangeService.create_order raises: the except clause of
\* _process_buy_signal / _process_sell_signal, then the interval sleep;
\* before it, one that counts the failure as _main_loop counts an exception
OrderFailureCounted(sts, side) ==
    Outcome(state, paper_service, risk_manager, strategy,
            [sts EXCEPT !.errors = @ + 1, !.last_action = Act("error", "none")],
            "sleep_backoff", "none", 0)

OrderFailure(sts, side) ==
    Outcome(state, paper_service, risk_manager, strategy,
            [sts EXCEPT !.last_action =
                 Act(IF side = "buy" THEN "trade_error" ELSE "sell_error", "none")],
            "sleep_interval", "none", 0)

\* TradingEngine._process_buy_signal
process_buy_signal(sts, pct, portfolio, price) ==
    LET balance_clp == portfolio.balance_clp
        amount_clp == (balance_clp * pct) \div 100
        v == validate_buy(risk_manager, amount_clp, balance_clp, price, now)
        trade == execute_buy(paper_service, amount_clp, price)
    IN  IF ~v.approved
        THEN Outcome(state, paper_service, v.rm, strategy,
                     [sts EXCEPT !.last_action = Act("rejected", v.reason)],
                     "sleep_interval", "none", 0)
        ELSE IF paper_trading
        THEN IF trade.ok
             THEN Outcome(state, trade.svc, record_trade(v.rm, now),
                          record_buy(strategy, now),
                          [sts EXCEPT !.total_trades = @ + 1,
                                      !.last_action = Act("bought", "none")],
                          "sleep_interval", "none", 0)
             ELSE Outcome(state, paper_service, v.rm, strategy, sts,
                          "sleep_interval", "none", 0)
        ELSE IF api_keys
        THEN Outcome(state, paper_service, v.rm, strategy, sts,
                     "order", "buy", amount_clp \div price)
        ELSE [OrderFailure(sts, "buy") EXCEPT !.rm = v.rm]

\* TradingEngine._process_sell_signal
process_sell_signal(sts, pct, portfolio, price) ==
    LET balance_btc == portfolio.balance_btc
        amount_btc == (balance_btc * pct) \div 100
        avg_buy_price == portfolio.avg_buy_price
        v == validate_sell(risk_manager, amount_btc, balance_btc, price,
                           avg_buy_price, now)
        trade == execute_sell(paper_service, amount_btc, price)
        sold == trade.svc.trades[Len(trade.svc.trades)]
        profit == sold.amount_clp - amount_btc * avg_buy_price
    IN  IF balance_btc <= 0
        THEN Outcome(state, paper_service, risk_manager, strategy,
                     [sts EXCEPT !.last_action = Act("no_btc_to_sell", "none")],
                     "sleep_interval", "none", 0)
        ELSE IF v.raises
        THEN [OnException(sts) EXCEPT !.rm = v.rm]
        ELSE IF ~v.approved
        THEN Outcome(state, paper_service, v.rm, strategy,
                     [sts EXCEPT !.last_action = Act("sell_rejected", v.reason)],
                     "sleep_interval", "none", 0)
        ELSE IF paper_trading
        THEN IF trade.ok
             THEN Outcome(state, trade.svc, record_trade(v.rm, now), strategy,
                          [sts EXCEPT !.total_trades = @ + 1,
                                      !.wins = IF profit > 0 THEN @ + 1 ELSE @,
                                      !.losses = IF profit > 0 THEN @ ELSE @ + 1,
                                      !.total_profit_clp = @ + profit,
                                      !.last_action = Act("sold", "none")],
                          "sleep_interval", "none", 0)
             ELSE Outcome(state, paper_service, v.rm, strategy, sts,
                          "sleep_interval", "none", 0)
        ELSE IF api_keys
        THEN Outcome(state, paper_service, v.rm, strategy, sts,
                     "order", "sell", amount_btc)
        ELSE [OrderFailure(sts, "sell") EXCEPT !.rm = v.rm]

\* _main_loop, step 5: dispatch on the signal the strategy returned; before
\* it, one whose hold starts the cooldown as a trade does
process_signal_recording_hold(sts, signal, portfolio, price) ==
    LET seen == [sts EXCEPT !.last_signal = signal.signal]
    IN  IF signal.signal = "buy"
        THEN process_buy_signal(seen, signal.suggested_amount_pct, portfolio, price)
        ELSE IF signal.signal = "sell"
        THEN process_sell_signal(seen, signal.suggested_amount_pct, portfolio, price)
        ELSE Outcome(state, paper_service, record_trade(risk_manager, now),
                     strategy,
                     [seen EXCEPT !.last_action = Act("hold", "none")],
                     "sleep_interval", "none", 0)

process_signal(sts, signal, portfolio, price) ==
    LET seen == [sts EXCEPT !.last_signal = signal.signal]
    IN  IF signal.signal = "buy"
        THEN process_buy_signal(seen, signal.suggested_amount_pct, portfolio, price)
        ELSE IF signal.signal = "sell"
        THEN process_sell_signal(seen, signal.suggested_amount_pct, portfolio, price)
        ELSE Outcome(state, paper_service, risk_manager, strategy,
                     [seen EXCEPT !.last_action = Act("hold", "none")],
                     "sleep_interval", "none", 0)

\* _main_loop, steps 4 and 5: strategy call and dispatch
Decide(sts, portfolio, rsi, price) ==
    process_signal(sts, analyze(strategy, rsi, now), portfolio, price)

\* TradingEngine._build_portfolio_from_balances
build_portfolio_from_balances(balances) ==
    [balance_clp |-> balances.clp, balance_btc |-> balances.btc,
     avg_buy_price |-> 0]

\* _main_loop, steps 2 and 3, on a non-empty candle series
OnData(sts, rsi, price) ==
    IF paper_trading
    THEN Decide(sts, get_portfolio(paper_service), rsi, price)
    ELSE IF api_keys
    THEN Outcome(state, paper_service, risk_manager, strategy, sts,
                 "balances", "none", 0)
    ELSE Decide(sts, build_portfolio_from_balances(NoBalances), rsi, price)

\* the engine after loop task t ran up to its next await, or to its end
Leave(t, o, rsi, price) ==
    /\ state' = o.state
    /\ paper_service' = o.ps
    /\ risk_manager' = o.rm
    /\ strategy' = o.st
    /\ stats' = o.stats
    /\ IF o.pc = "done"
       THEN /\ tasks' = TasksWithout(tasks, t)
            /\ stops' = StopsWithout(stops, t)
            /\ task' = IF t = 1 THEN "done" ELSE task
       ELSE /\ tasks' = [tasks EXCEPT ![t] =
                            Loop(o.pc, FALSE,
                                 IF o.pc = "balances" THEN rsi ELSE 0,
                                 IF o.pc = "balances" THEN price ELSE 0,
                                 o.side, o.amount)]
            /\ UNCHANGED <<task, stops>>
    /\ UNCHANGED <<config, current_strategy, paper_trading, should_run,
                   now, ticks, ret, quiet>>

Resting == {"new", "sleep_paused", "sleep_interval", "sleep_backoff"}

\* _main_loop: the while test and the iteration up to its first await
Iterate(t, cap) ==
    /\ tasks[t].pc \in Resting
    /\ ~tasks[t].cancel
    /\ IF ~should_run
       THEN /\ Leave(t, Outcome(state, paper_service, risk_manager, strategy,
                                stats, "done", "none", 0), 0, 0)
            /\ UNCHANGED exchange
       ELSE /\ stats.loop_count < cap
            /\ LET counted == [stats EXCEPT !.loop_count = @ + 1]
               IN  IF state = "paused"
                   THEN /\ Leave(t, Outcome(state, paper_service, risk_manager,
                                    strategy,
                                    [counted EXCEPT !.last_action = Act("paused", "none")],
                                    "sleep_paused", "none", 0), 0, 0)
                        /\ UNCHANGED exchange
                   ELSE IF api_keys
                   THEN /\ Leave(t, Outcome(state, paper_service, risk_manager,
                                    strategy, counted, "fetch", "none", 0), 0, 0)
                        /\ exchange' = [exchange EXCEPT !.conn = TRUE]
                   ELSE /\ \E m \in Market :
                                Leave(t, OnData(counted, m.rsi, m.price),
                                      m.rsi, m.price)
                        /\ UNCHANGED exchange

LoopIterate(t) == Iterate(t, MaxLoops)

\* ExchangeService.get_ohlcv raises
FetchRaises(t) ==
    /\ tasks[t].pc = "fetch"
    /\ ~tasks[t].cancel
    /\ Leave(t, OnException(stats), 0, 0)
    /\ UNCHANGED exchange

\* ExchangeService.get_ohlcv returns: no candles, or a series
FetchReturns(t) ==
    /\ tasks[t].pc = "fetch"
    /\ ~tasks[t].cancel
    /\ \/ Leave(t, Outcome(state, paper_service, risk_manager, strategy,
                           [stats EXCEPT !.last_action = Act("no_data", "none")],
                           "sleep_interval", "none", 0), 0, 0)
       \/ \E m \in Market :
              Leave(t, OnData(stats, m.rsi, m.price), m.rsi, m.price)
    /\ UNCHANGED exchange

\* ExchangeService.get_balances raises
BalancesRaise(t) ==
    /\ tasks[t].pc = "balances"
    /\ ~tasks[t].cancel
    /\ Leave(t, OnException(stats), 0, 0)
    /\ UNCHANGED exchange

\* ExchangeService.get_balances returns
BalancesReturn(t) ==
    /\ tasks[t].pc = "balances"
    /\ ~tasks[t].cancel
    /\ \E b \in Balances :
           Leave(t, Decide(stats, build_portfolio_from_balances(b),
                           tasks[t].rsi, tasks[t].price),
                 tasks[t].rsi, tasks[t].price)
    /\ UNCHANGED exchange

\* ExchangeService.create_order returns, inside _process_buy_signal /
\* _process_sell_signal
OrderAccepted(t) ==
    /\ tasks[t].pc = "order"
    /\ ~tasks[t].cancel
    /\ Leave(t, Outcome(state, paper_service, record_trade(risk_manager, now),
                        IF tasks[t].side = "buy"
                        THEN record_buy(strategy, now) ELSE strategy,
                        [stats EXCEPT !.total_trades = @ + 1,
                                      !.last_action =
                                         Act(IF tasks[t].side = "buy"
                                             THEN "bought" ELSE "sold", "none")],
                        "sleep_interval", "none", 0), 0, 0)
    /\ UNCHANGED exchange

\* ExchangeService.create_order raises
OrderFails(t) ==
    /\ tasks[t].pc = "order"
    /\ ~tasks[t].cancel
    /\ Leave(t, OrderFailure(stats, tasks[t].side), 0, 0)
    /\ UNCHANGED exchange

\* Task.cancel() reaches the coroutine at the await it is suspended on: the
\* loop breaks, or the CancelledError leaves the backoff sleep; a task that
\* never ran is dropped
LoopCancelled(t) ==
    /\ Alive(t)
    /\ tasks[t].cancel
    /\ Leave(t, Outcome(state, paper_service, risk_manager, strategy, stats,
                        "done", "none", 0), 0, 0)
    /\ UNCHANGED exchange

\* ------------------------------------------------------------------ stop
LiveStates == {"running", "paused", "starting"}

\* what stop() returns, on a Stopped engine and at its end; before the
\* first, a stop() that reports a Stopped engine as a failure
AlreadyStoppedFails == Ret("stop", FALSE)

AlreadyStopped == Ret("stop", TRUE)
StopReturns == Ret("stop", TRUE)

\* TradingEngine.stop, after the loop task is joined: the exchange is closed
\* (ExchangeService.close awaits the ccxt instance if there is one) and the
\* engine becomes Stopped.  rest: the other calls in flight
StopFinish(rest, live) ==
    IF exchange.present /\ exchange.conn
    THEN /\ Len(rest) < MaxStops
         /\ stops' = Sorted(Append(rest, Stop("await_close", 0, TRUE, live)))
         /\ state' = "stopping"
         /\ UNCHANGED <<ret, quiet>>
    ELSE /\ stops' = rest
         /\ state' = "stopped"
         /\ ret' = StopReturns
         /\ quiet' = (quiet \/ live)

Except(st, i) == [j \in 1..(Len(st) - 1) |-> IF j < i THEN st[j] ELSE st[j + 1]]

\* TradingEngine.stop up to its first await
stop ==
    /\ IF state = "stopped"
       THEN /\ ret' = AlreadyStopped
            /\ UNCHANGED <<state, should_run, tasks, stops, quiet>>
       ELSE /\ should_run' = FALSE
            /\ IF task = "live"
               THEN /\ Len(stops) < MaxStops
                    /\ state' = "stopping"
                    /\ tasks' = [tasks EXCEPT ![1].cancel = TRUE]
                    /\ stops' = Sorted(Append(stops,
                                   Stop("await_task", 1, FALSE, state \in LiveStates)))
                    /\ UNCHANGED <<ret, quiet>>
               ELSE /\ StopFinish(stops, state \in LiveStates)
                    /\ UNCHANGED tasks
    /\ UNCHANGED <<config, current_strategy, paper_trading, task, components,
                   stats, now, ticks>>

\* stop(): await self._task returns
StopJoined(i) ==
    /\ i \in 1..Len(stops)
    /\ stops[i].pc = "joined"
    /\ StopFinish(Except(stops, i), stops[i].live)
    /\ UNCHANGED <<config, current_strategy, paper_trading, task, should_run,
                   components, stats, tasks, now, ticks>>

\* stop(): await self._exchange.close() returns
StopClosed(i) ==
    /\ i \in 1..Len(stops)
    /\ stops[i].pc = "await_close"
    /\ exchange' = IF stops[i].own THEN [exchange EXCEPT !.conn = FALSE]
                   ELSE exchange
    /\ state' = "stopped"
    /\ stops' = Except(stops, i)
    /\ ret' = StopReturns
    /\ quiet' = (quiet \/ stops[i].live)
    /\ UNCHANGED <<config, current_strategy, paper_trading, task, should_run,
                   paper_service, risk_manager, strategy, stats, tasks, now,
                   ticks>>

\* the clock; the code reads it only to take the distance to a recorded
\* trade or buy, so time starts counting with the first of those
Recorded ==
    \/ risk_manager.last_trade_time # NoTime
    \/ strategy.last_buy_time # NoTime

Tick(d) ==
    /\ ticks < MaxTicks
    /\ Recorded
    /\ now' = now + d
    /\ ticks' = ticks + 1
    /\ UNCHANGED <<config, state, current_strategy, paper_trading, task,
                   should_run, components, stats, tasks, stops, ret, quiet>>

Next ==
    \/ \E s \in StrategyIds, p \in BOOLEAN : start(s, p)
    \/ pause
    \/ resume
    \/ \E t \in 1..MaxTasks : LoopIterate(t)
    \/ \E t \in 1..MaxTasks : FetchRaises(t)
    \/ \E t \in 1..MaxTasks : FetchReturns(t)
    \/ \E t \in 1..MaxTasks : BalancesRaise(t)
    \/ \E t \in 1..MaxTasks : BalancesReturn(t)
    \/ \E t \in 1..MaxTasks : OrderAccepted(t)
    \/ \E t \in 1..MaxTasks : OrderFails(t)
    \/ \E t \in 1..MaxTasks : LoopCancelled(t)
    \/ stop
    \/ \E i \in 1..MaxStops : StopJoined(i)
    \/ \E i \in 1..MaxStops : StopClosed(i)
    \/ \E d \in TimeSteps : Tick(d)

Spec == Init /\ [][Next]_vars

\* a paper-mode engine with exchange credentials, left to run long enough
\* for the error count to pass the threshold; one stop() at a time
ErrInit == Init /\ ~trading_enabled /\ api_keys

ErrNext ==
    \/ start("smart_dca", TRUE)
    \/ pause
    \/ resume
    \/ Iterate(1, MaxErrLoops)
    \/ FetchRaises(1)
    \/ FetchReturns(1)
    \/ LoopCancelled(1)
    \/ stops = <<>> /\ stop
    \/ StopJoined(1)
    \/ StopClosed(1)

ErrSpec == ErrInit /\ [][ErrNext]_vars

\* ------------------------------------------------- dispatch on any signal
\* _process_buy_signal and _process_sell_signal under every signal the
\* Strategy interface allows (SmartDCA itself never returns a sell): the
\* signals, and the balances the exchange may report
Signals ==
    {[signal |-> "buy", suggested_amount_pct |-> BaseAmountPct],
     [signal |-> "buy", suggested_amount_pct |-> AmountPctCap],
     [signal |-> "buy", suggested_amount_pct |-> 100],
     [signal |-> "buy", suggested_amount_pct |-> 0],
     [signal |-> "sell", suggested_amount_pct |-> 50],
     [signal |-> "sell", suggested_amount_pct |-> 0],
     [signal |-> "sell", suggested_amount_pct |-> 100],
     [signal |-> "hold", suggested_amount_pct |-> 0]}

SignalBalances ==
    {NoBalances, [clp |-> 20000 * MoneyScale, btc |-> 0],
     [clp |-> 20000 * MoneyScale, btc |-> 10000]}

\* _main_loop: one iteration whose get_ohlcv and get_balances return or
\* raise at once, run up to the order it submits or to its sleep
IterateOn(t, cap) ==
    /\ tasks[t].pc \in Resting
    /\ ~tasks[t].cancel
    /\ should_run
    /\ state # "paused"
    /\ stats.loop_count < cap
    /\ LET counted == [stats EXCEPT !.loop_count = @ + 1]
       IN  \/ /\ api_keys
              /\ Leave(t, OnException(counted), 0, 0)
           \/ \E signal \in Signals, m \in Market, b \in SignalBalances :
                  Leave(t, process_signal(counted, signal,
                               IF paper_trading
                               THEN get_portfolio(paper_service)
                               ELSE build_portfolio_from_balances(
                                        IF api_keys THEN b ELSE NoBalances),
                               m.price),
                        m.rsi, m.price)
    /\ exchange' = IF api_keys THEN [exchange EXCEPT !.conn = TRUE] ELSE exchange

DispatchNext ==
    \/ \E p \in BOOLEAN : start("smart_dca", p)
    \/ IterateOn(1, MaxSignalLoops)
    \/ OrderAccepted(1)
    \/ OrderFails(1)
    \/ LoopCancelled(1)
    \/ stops = <<>> /\ stop
    \/ StopJoined(1)
    \/ StopClosed(1)
    \/ \E d \in TimeSteps : Tick(d)

DispatchSpec == Init /\ [][DispatchNext]_vars

\* ------------------------------------------------------ the status accessor
\* RiskManager.get_status: what the call leaves of the Risk Manager, and the
\* daily_trades_used it reports; before it, one that forgets every trade
risk_get_status_clearing(rm, at) == [rm EXCEPT !.daily_trades = <<>>]

risk_get_status(rm, at) == cleanup_daily_trades(rm, at)

\* TradingEngine.get_status: reads state and stats, asks the ledger for the
\* portfolio in paper mode (PaperTradingService.get_portfolio only reads)
\* and asks the Risk Manager, when there is one, for its status
get_status ==
    /\ risk_manager' = IF risk_manager.present
                        THEN risk_get_status(risk_manager, now)
                        ELSE risk_manager
    /\ ret' = [op |-> "get_status", ok |-> TRUE,
               daily_trades_used |-> IF risk_manager.present
                                     THEN Len(risk_manager'.daily_trades)
                                     ELSE 0]
    /\ UNCHANGED <<config, state, current_strategy, paper_trading, task,
                   should_run, exchange, paper_service, strategy, stats, tasks,
                   stops, now, ticks, quiet>>

\* the engine under any signal, paused and resumed, a day or a cooldown
\* passing after a trade, and its status read at any point
MaxStatusLoops == 2

StatusTimeSteps == {TradeCooldownMinutes, DayMinutes}

StatusNext ==
    \/ \E p \in BOOLEAN : start("smart_dca", p)
    \/ pause
    \/ resume
    \/ IterateOn(1, MaxStatusLoops)
    \/ OrderAccepted(1)
    \/ OrderFails(1)
    \/ LoopCancelled(1)
    \/ stops = <<>> /\ stop
    \/ StopJoined(1)
    \/ StopClosed(1)
    \/ get_status
    \/ \E d \in StatusTimeSteps : Tick(d)

StatusSpec == Init /\ [][StatusNext]_vars

\* ------------------------------------------------------ the ledger alone
\* PaperTradingService by itself: constructed with a fee rate, then any
\* execute_buy and execute_sell calls, accepted or rejected, up to MaxTrades
\* trade records.  ret holds the call that returned last and whether it
\* returned a trade record
FeeRates == {0, FeePerMille, 1000}

BuyAmounts ==
    {-1 * MoneyScale, 0, 2500 * MoneyScale, 5000 * MoneyScale,
     20000 * MoneyScale, 20001 * MoneyScale}

Prices == {800, 900, 1000}

SellAmounts(ps) ==
    {-1, 0, 1000, ps.balance_btc \div 2, ps.balance_btc, ps.balance_btc + 1}

LedgerInit ==
    /\ trading_enabled = FALSE
    /\ api_keys = FALSE
    /\ state = "stopped"
    /\ current_strategy = "none"
    /\ paper_trading = TRUE
    /\ task = "none"
    /\ should_run = FALSE
    /\ exchange = NoExchange
    /\ \E f \in FeeRates :
           paper_service = [NewPaperService EXCEPT !.fee_per_mille = f]
    /\ risk_manager = NoRiskManager
    /\ strategy = NoStrategy
    /\ stats = InitStats
    /\ tasks = [i \in 1..MaxTasks |-> NoLoop]
    /\ stops = <<>>
    /\ now = 0
    /\ ticks = 0
    /\ ret = Ret("none", TRUE)
    /\ quiet = FALSE

LedgerBuy(amount_clp, price_clp) ==
    /\ Len(paper_service.trades) < MaxTrades
    /\ LET r == execute_buy(paper_service, amount_clp, price_clp)
       IN  /\ paper_service' = r.svc
           /\ ret' = Ret("execute_buy", r.ok)
    /\ UNCHANGED <<config, state, current_strategy, paper_trading, task,
                   should_run, exchange, risk_manager, strategy, stats, tasks,
                   stops, now, ticks, quiet>>

LedgerSell(amount_btc, price_clp) ==
    /\ Len(paper_service.trades) < MaxTrades
    /\ LET r == execute_sell(paper_service, amount_btc, price_clp)
       IN  /\ paper_service' = r.svc
           /\ ret' = Ret("execute_sell", r.ok)
    /\ UNCHANGED <<config, state, current_strategy, paper_trading, task,
                   should_run, exchange, risk_manager, strategy, stats, tasks,
                   stops, now, ticks, quiet>>

\* get_recent_trades hands its limit parameter, any integer, to
\* get_trade_history
HistoryLimits == {0, 1, 2, MaxTrades + 1}

LedgerHistory(limit) ==
    /\ ret' = [op |-> "get_trade_history", ok |-> TRUE, limit |-> limit,
               trades |-> get_trade_history(paper_service, limit)]
    /\ UNCHANGED <<config, state, current_strategy, paper_trading, task,
                   should_run, components, stats, tasks, stops, now, ticks,
                   quiet>>

LedgerNext ==
    \/ \E a \in BuyAmounts, p \in Prices : LedgerBuy(a, p)
    \/ \E a \in SellAmounts(paper_service), p \in Prices : LedgerSell(a, p)
    \/ \E limit \in HistoryLimits : LedgerHistory(limit)

LedgerSpec == LedgerInit /\ [][LedgerNext]_vars

\* ------------------------------------------------ the Risk Manager alone
\* RiskManager by itself: constructed with a fee rate, then any
\* validate_buy and record_trade calls as time passes.  ret holds the
\* RiskValidation returned last
RiskFeeRates == {FeePerMille, 30}

RiskAmounts ==
    {0, 2000 * MoneyScale, 5000 * MoneyScale, 6000 * MoneyScale,
     16000 * MoneyScale, 30000 * MoneyScale}

RiskBalances == {4000 * MoneyScale, 20000 * MoneyScale, 80000 * MoneyScale}

RiskTimeSteps == {TradeCooldownMinutes, DayMinutes}

\* validate_sell: BTC amounts and balances in satoshi, and the average buy
\* price of the portfolio (0: none known)
RiskSellAmounts == {1000, 3000}

RiskSellBalances == {1, 2000}

AvgBuyPrices == {0, 900}

Validation(op, v) == [op |-> op, ok |-> v.approved, reason |-> v.reason]

RiskInit ==
    /\ trading_enabled = FALSE
    /\ api_keys = FALSE
    /\ state = "stopped"
    /\ current_strategy = "none"
    /\ paper_trading = TRUE
    /\ task = "none"
    /\ should_run = FALSE
    /\ exchange = NoExchange
    /\ paper_service = NoPaperService
    /\ \E f \in RiskFeeRates :
           risk_manager = [NewRiskManager EXCEPT !.fee_per_mille = f]
    /\ strategy = NoStrategy
    /\ stats = InitStats
    /\ tasks = [i \in 1..MaxTasks |-> NoLoop]
    /\ stops = <<>>
    /\ now = 0
    /\ ticks = 0
    /\ ret = Ret("none", TRUE)
    /\ quiet = FALSE

RiskValidateBuy(amount_clp, balance_clp, current_price) ==
    /\ LET v == validate_buy(risk_manager, amount_clp, balance_clp,
                             current_price, now)
       IN  /\ risk_manager' = v.rm
           /\ ret' = Validation("validate_buy", v)
    /\ UNCHANGED <<config, state, current_strategy, paper_trading, task,
                   should_run, exchange, paper_service, strategy, stats, tasks,
                   stops, now, ticks, quiet>>

RiskValidateSell(amount_btc, balance_btc, current_price, avg_buy_price) ==
    /\ LET v == validate_sell(risk_manager, amount_btc, balance_btc,
                              current_price, avg_buy_price, now)
       IN  /\ risk_manager' = v.rm
           /\ ret' = Validation("validate_sell", v)
    /\ UNCHANGED <<config, state, current_strategy, paper_trading, task,
                   should_run, exchange, paper_service, strategy, stats, tasks,
                   stops, now, ticks, quiet>>

RiskRecordTrade ==
    /\ Len(risk_manager.daily_trades) < MaxRecorded
    /\ risk_manager' = record_trade(risk_manager, now)
    /\ UNCHANGED <<config, state, current_strategy, paper_trading, task,
                   should_run, exchange, paper_service, strategy, stats, tasks,
                   stops, now, ticks, ret, quiet>>

RiskTick(d) ==
    /\ ticks < MaxRiskTicks
    /\ now' = now + d
    /\ ticks' = ticks + 1
    /\ UNCHANGED <<config, state, current_strategy, paper_trading, task,
                   should_run, components, stats, tasks, stops, ret, quiet>>

RiskNext ==
    \/ \E a \in RiskAmounts, b \in RiskBalances, p \in Prices :
           RiskValidateBuy(a, b, p)
    \/ \E a \in RiskSellAmounts, b \in RiskSellBalances, p \in Prices,
          avg \in AvgBuyPrices :
           RiskValidateSell(a, b, p, avg)
    \/ RiskRecordTrade
    \/ \E d \in RiskTimeSteps : RiskTick(d)

RiskSpec == RiskInit /\ [][RiskNext]_vars

\* ------------------------------------------------- the strategy alone
\* SmartDCAStrategy built with a configuration, then asked for signals at
\* RSI values on both sides of the two thresholds while time passes and
\* purchases are recorded
MaxStrategyTicks == 3

RsiValues == {0, 29, 30, 31, 50, 69, 70, 71, 100}
BaseAmountPcts == {5, BaseAmountPct, 20}
AccelerateAmountPcts == {5, AccelerateAmountPct}
StrategyTimeSteps == {1, DcaIntervalMinutes - 1}

StrategyInit ==
    /\ trading_enabled = FALSE
    /\ api_keys = FALSE
    /\ state = "stopped"
    /\ current_strategy = "none"
    /\ paper_trading = TRUE
    /\ task = "none"
    /\ should_run = FALSE
    /\ exchange = NoExchange
    /\ paper_service = NoPaperService
    /\ risk_manager = NoRiskManager
    /\ \E b \in BaseAmountPcts, a \in AccelerateAmountPcts :
           strategy = [NewStrategy EXCEPT !.base_amount_pct = b,
                                          !.accelerate_amount_pct = a]
    /\ stats = InitStats
    /\ tasks = [i \in 1..MaxTasks |-> NoLoop]
    /\ stops = <<>>
    /\ now = 0
    /\ ticks = 0
    /\ ret = Ret("none", TRUE)
    /\ quiet = FALSE

StrategyAnalyze(rsi) ==
    /\ LET signal == analyze(strategy, rsi, now)
       IN  ret' = [op |-> "analyze", rsi |-> rsi, signal |-> signal.signal,
                   suggested_amount_pct |-> signal.suggested_amount_pct]
    /\ UNCHANGED <<config, state, current_strategy, paper_trading, task,
                   should_run, components, stats, tasks, stops, now, ticks,
                   quiet>>

StrategyRecordBuy ==
    /\ strategy' = record_buy(strategy, now)
    /\ ret' = Ret("record_buy", TRUE)
    /\ UNCHANGED <<config, state, current_strategy, paper_trading, task,
                   should_run, exchange, paper_service, risk_manager, stats,
                   tasks, stops, now, ticks, quiet>>

StrategyTick(d) ==
    /\ ticks < MaxStrategyTicks
    /\ now' = now + d
    /\ ticks' = ticks + 1
    /\ UNCHANGED <<config, state, current_strategy, paper_trading, task,
                   should_run, components, stats, tasks, stops, ret, quiet>>

StrategyNext ==
    \/ \E rsi \in RsiValues : StrategyAnalyze(rsi)
    \/ StrategyRecordBuy
    \/ \E d \in StrategyTimeSteps : StrategyTick(d)

StrategySpec == StrategyInit /\ [][StrategyNext]_vars

\* ================================================================ claims
\* C1: start() called while the engine is Running, Paused, Starting or
\* Stopping returns false and changes nothing: state, strategy id, paper
\* flag, components, stats and the loop task stay as they were.
C1_StartRefusedWhenBusy ==
    [][\A s \in StrategyIds, p \in BOOLEAN :
          (state \in {"running", "paused", "starting", "stopping"}
               /\ start(s, p)) =>
              /\ ret' = Ret("start", FALSE)
              /\ UNCHANGED <<state, current_strategy, paper_trading, should_run,
                             exchange, paper_service, risk_manager, strategy,
                             stats, task, tasks>>]_vars

\* C1 witness: a start() was refused on a Paused engine whose loop is alive
C1_Witness ==
    /\ ret = Ret("start", FALSE)
    /\ state = "paused"
    /\ task = "live"

\* C2: start(paper_trading = false) while TRADING_ENABLED is false returns
\* false and leaves the engine as it was: state, strategy id, paper flag,
\* components and stats unchanged, no loop launched.
C2_RealStartRefusedWhenDisabled ==
    [][\A s \in StrategyIds :
          (~trading_enabled /\ start(s, FALSE)) =>
              /\ ret' = Ret("start", FALSE)
              /\ UNCHANGED <<state, current_strategy, paper_trading, should_run,
                             exchange, paper_service, risk_manager, strategy,
                             stats, task, tasks>>]_vars

\* C2 witness: on a Stopped engine, where a paper start would have gone
\* through, a start() was refused; the engine is still as constructed
C2_Witness ==
    /\ ~trading_enabled
    /\ ret = Ret("start", FALSE)
    /\ state = "stopped"
    /\ current_strategy = "none"
    /\ paper_trading
    /\ task = "none"

\* C3 as stated: start() with an unknown strategy id returns false and the
\* engine state, the strategy id and the components are what they were.
C3_UnknownStrategyNoChange ==
    [][\A s \in StrategyIds \ {"smart_dca"}, p \in BOOLEAN :
          (state \in {"stopped", "error"} /\ (p \/ trading_enabled) /\ start(s, p)) =>
              /\ ret' = Ret("start", FALSE)
              /\ UNCHANGED <<state, current_strategy, exchange, paper_service,
                             risk_manager, strategy>>]_vars

\* C3 amended: start() with an unknown strategy id, from Stopped or Error
\* and in an allowed mode, returns false and launches no loop, but it does
\* change the engine: the state becomes Error, the strategy id and the paper
\* flag are the requested ones, the exchange service and the Risk Manager
\* are new ones and, in paper mode, the ledger is a fresh one; the strategy
\* component, the loop task and the stats are what they were.
C3_UnknownStrategyLeavesError ==
    [][\A s \in StrategyIds \ {"smart_dca"}, p \in BOOLEAN :
          (state \in {"stopped", "error"} /\ (p \/ trading_enabled) /\ start(s, p)) =>
              /\ ret' = Ret("start", FALSE)
              /\ state' = "error"
              /\ current_strategy' = s
              /\ paper_trading' = p
              /\ exchange' = [present |-> TRUE, conn |-> FALSE]
              /\ risk_manager'.present
              /\ risk_manager'.last_trade_time = NoTime
              /\ risk_manager'.daily_trades = <<>>
              /\ IF p
                 THEN /\ paper_service'.present
                      /\ paper_service'.balance_clp = 20000 * MoneyScale
                      /\ paper_service'.balance_btc = 0
                      /\ paper_service'.trades = <<>>
                 ELSE paper_service' = paper_service
              /\ UNCHANGED <<strategy, task, tasks, stats>>]_vars

\* C3 witness: after a run that traded, a start() with an unknown strategy
\* id has left the engine in Error with an empty ledger
C3_Witness ==
    /\ ret = Ret("start", FALSE)
    /\ state = "error"
    /\ current_strategy = "grid"
    /\ stats.total_trades > 0
    /\ paper_service.present
    /\ paper_service.trades = <<>>

\* C4: a start() that succeeds (from Stopped or Error, known strategy, mode
\* allowed) returns true with state Running, startTime recorded, exactly one
\* loop launched, a new Risk Manager (lastTradeTime unset, dailyTrades
\* empty), a new Strategy (lastBuyTime unset) and, in paper mode, a fresh
\* ledger (initial quote balance, zero base balance, no trades), whatever
\* an earlier run did.
C4_StartSucceedsFresh ==
    [][\A p \in BOOLEAN :
          (state \in {"stopped", "error"} /\ (p \/ trading_enabled)
               /\ start("smart_dca", p)) =>
              /\ ret' = Ret("start", TRUE)
              /\ state' = "running"
              /\ stats'.start_time = now
              /\ stats'.start_time # NoTime
              /\ task' = "live"
              /\ tasks'[1] = NewLoop
              /\ Cardinality({t \in 1..MaxTasks : tasks'[t].pc # "none"})
                    = Cardinality({t \in 1..MaxTasks : tasks[t].pc # "none"}) + 1
              /\ risk_manager'.present
              /\ risk_manager'.last_trade_time = NoTime
              /\ risk_manager'.daily_trades = <<>>
              /\ strategy'.present
              /\ strategy'.last_buy_time = NoTime
              /\ p => /\ paper_service'.present
                       /\ paper_service'.balance_clp = 20000 * MoneyScale
                       /\ paper_service'.balance_btc = 0
                       /\ paper_service'.trades = <<>>]_vars

\* C4 witness: a restart in paper mode after a run that bought: the trade
\* count of the earlier run is still in the stats, the ledger is fresh
C4_Witness ==
    /\ ret = Ret("start", TRUE)
    /\ state = "running"
    /\ paper_trading
    /\ stats.total_trades > 0
    /\ paper_service.trades = <<>>
    /\ paper_service.balance_clp = 20000 * MoneyScale
    /\ risk_manager.daily_trades = <<>>
    /\ strategy.last_buy_time = NoTime

\* C5: pause() succeeds only from Running (state Paused, returns true) and
\* resume() only from Paused (state Running, returns true); in any other
\* state each returns false and leaves the engine state unchanged.
C5_PauseResume ==
    [][/\ pause => IF state = "running"
                   THEN state' = "paused" /\ ret' = Ret("pause", TRUE)
                   ELSE state' = state /\ ret' = Ret("pause", FALSE)
       /\ resume => IF state = "paused"
                    THEN state' = "running" /\ ret' = Ret("resume", TRUE)
                    ELSE state' = state /\ ret' = Ret("resume", FALSE)]_vars

\* C5 witness: a resume() has brought a paused engine back to Running
C5_Witness ==
    /\ ret = Ret("resume", TRUE)
    /\ state = "running"
    /\ stats.last_action = Act("paused", "none")

\* C6: once a stop() called in Running, Paused or Starting has returned,
\* and until the next successful start(), no loop iteration runs: no step
\* of a loop task changes the stats, the ledger or the Risk Manager.
C6_NoLoopAfterStop ==
    [][(quiet /\ \E t \in 1..MaxTasks :
                    \/ LoopIterate(t)
                    \/ FetchRaises(t) \/ FetchReturns(t)
                    \/ BalancesRaise(t) \/ BalancesReturn(t)
                    \/ OrderAccepted(t) \/ OrderFails(t)) =>
          UNCHANGED <<stats, paper_service, risk_manager>>]_vars

\* C7: stop() on an engine that is already Stopped returns true and changes
\* no state, so any number of stop() calls in a row leaves the engine as
\* one call does.
C7_StopIdempotent ==
    [][(state = "stopped" /\ stop) =>
          /\ ret' = Ret("stop", TRUE)
          /\ UNCHANGED <<state, current_strategy, paper_trading, should_run,
                         exchange, paper_service, risk_manager, strategy,
                         stats, task, tasks, stops>>]_vars

\* C7 witness: stop() has returned on an engine no start() ever got past
\* its guards on, so that was Stopped all along
C7_Witness ==
    /\ ret = Ret("stop", TRUE)
    /\ state = "stopped"
    /\ current_strategy = "none"

\* C8 as stated: once the engine state is Error, stop(), pause() and
\* resume() all leave it in Error.
C8_OnlyStartLeavesError ==
    [][(state = "error" /\ (stop \/ pause \/ resume)) => state' = "error"]_vars

\* C8 amended: once the engine state is Error, pause() and resume() return
\* false and leave it in Error; the state leaves Error only by a start()
\* or by a stop(), which returns true with the engine Stopped (through
\* Stopping while it waits for the loop task or the exchange).
C8_ErrorLeftByStartOrStop ==
    [][state = "error" =>
          /\ pause => state' = "error" /\ ret' = Ret("pause", FALSE)
          /\ resume => state' = "error" /\ ret' = Ret("resume", FALSE)
          /\ stop => state' \in {"stopping", "stopped"}
          /\ state' # "error" =>
                \/ \E s \in StrategyIds, p \in BOOLEAN : start(s, p)
                \/ stop
                \/ \E i \in 1..MaxStops : StopJoined(i) \/ StopClosed(i)]_vars

\* C8 witness: a stop() called on an engine in Error (after a start() with
\* an unknown strategy id, no loop ever launched) has returned
C8_Witness ==
    /\ ret = Ret("stop", TRUE)
    /\ state = "stopped"
    /\ current_strategy = "grid"
    /\ task = "none"

\* C9: each exception escaping a loop iteration adds exactly one to the
\* error count; while the count is at most 10 the loop goes to its backoff
\* sleep and the engine state stays, and at the first exception that takes
\* the count above 10 the engine state becomes Error and the loop task ends.
C9_ErrorThreshold ==
    [][\A t \in 1..MaxTasks :
          (FetchRaises(t) \/ BalancesRaise(t)) =>
              /\ stats'.errors = stats.errors + 1
              /\ IF stats'.errors <= 10
                 THEN /\ tasks'[t].pc = "sleep_backoff"
                      /\ state' = state
                 ELSE /\ state' = "error"
                      /\ Cardinality({u \in 1..MaxTasks : tasks'[u].pc # "none"})
                            = Cardinality({u \in 1..MaxTasks : tasks[u].pc # "none"}) - 1
                      /\ t = 1 => task' = "done" /\ tasks'[1].pc = "none"]_vars

\* C9 witness: the eleventh exception of a run has put the engine in Error
\* and ended its loop
C9_Witness ==
    /\ state = "error"
    /\ stats.errors = 11
    /\ stats.last_action = Act("error", "none")
    /\ task = "done"

\* C10: while the engine state is Paused no trade is performed: no step
\* taken in Paused adds a trade to the paper ledger or submits an order to
\* the exchange.
C10_PausedEngineDoesNotTrade ==
    [][state = "paused" =>
          /\ paper_service'.trades = paper_service.trades
          /\ Cardinality({t \in 1..MaxTasks : tasks'[t].pc = "order"})
                <= Cardinality({t \in 1..MaxTasks : tasks[t].pc = "order"})]_vars
\* C11: a loop step in which a trade is executed (the ledger returns a
\* trade record, or the exchange accepts the order) enters exactly one time
\* in the Risk Manager's history, sets its last trade time and adds one to
\* total_trades, and a buy also sets the strategy's last buy time; a loop
\* step without an executed trade (rejection, no record from the ledger,
\* failed order, hold) leaves all of these as they were.
C11_RecordOncePerTrade ==
    [][(\/ IterateOn(1, MaxSignalLoops)
        \/ OrderAccepted(1) \/ OrderFails(1) \/ LoopCancelled(1)) =>
          LET paper == paper_service'.trades # paper_service.trades
              real == OrderAccepted(1)
              buy == \/ paper /\ paper_service'.trades[Len(paper_service'.trades)].side = "buy"
                     \/ real /\ tasks[1].side = "buy"
              kept == cleanup_daily_trades(risk_manager, now).daily_trades
          IN  IF paper \/ real
              THEN /\ risk_manager'.daily_trades \in
                          {Append(risk_manager.daily_trades, now), Append(kept, now)}
                   /\ risk_manager'.last_trade_time = now
                   /\ stats'.total_trades = stats.total_trades + 1
                   /\ strategy'.last_buy_time =
                          IF buy THEN now ELSE strategy.last_buy_time
              ELSE /\ risk_manager'.daily_trades \in {risk_manager.daily_trades, kept}
                   /\ risk_manager'.last_trade_time = risk_manager.last_trade_time
                   /\ stats'.total_trades = stats.total_trades
                   /\ strategy' = strategy]_vars

\* a paper buy and a paper sell were executed and recorded, and the next
\* sell was rejected
C11_Witness ==
    /\ paper_trading
    /\ Len(paper_service.trades) = 2
    /\ paper_service.trades[2].side = "sell"
    /\ stats.total_trades = 2
    /\ Len(risk_manager.daily_trades) = 2
    /\ strategy.last_buy_time = 0
    /\ stats.last_action.kind = "sell_rejected"

\* C12: the ledger changes only when start() replaces it by a fresh one, or
\* in a loop iteration that appends exactly one trade record by
\* execute_buy / execute_sell, and then the Risk Manager's rules, applied
\* in that same iteration to the amount, balance and price of the record,
\* approve the trade.
C12_LedgerOnlyAfterApproval ==
    [][(paper_service' # paper_service) =>
          \/ /\ \E p \in BOOLEAN : start("smart_dca", p)
             /\ paper_service' = NewPaperService
          \/ /\ IterateOn(1, MaxSignalLoops)
             /\ paper_trading
             /\ Len(paper_service'.trades) = Len(paper_service.trades) + 1
             /\ LET trade == paper_service'.trades[Len(paper_service'.trades)]
                    cleaned == cleanup_daily_trades(risk_manager, now)
                IN  IF trade.side = "buy"
                    THEN /\ BuyReason(cleaned, trade.amount_clp,
                                      paper_service.balance_clp, now) = "approved"
                         /\ paper_service' =
                               execute_buy(paper_service, trade.amount_clp,
                                           trade.price_clp).svc
                    ELSE /\ SellReason(cleaned, trade.amount_btc,
                                       paper_service.balance_btc, trade.price_clp,
                                       paper_service.avg_buy_price, now) = "approved"
                         /\ paper_service' =
                               execute_sell(paper_service, trade.amount_btc,
                                            trade.price_clp).svc]_vars

\* the ledger holds an approved buy and, after the cooldown, an approved
\* sell that the last iteration executed
C12_Witness ==
    /\ paper_trading
    /\ Len(paper_service.trades) = 2
    /\ paper_service.trades[1].side = "buy"
    /\ paper_service.trades[2].side = "sell"
    /\ stats.last_action = Act("sold", "none")
    /\ risk_manager.last_trade_time = now

C14_BuyRejectedIff ==
    [][\A a \in BuyAmounts, p \in Prices :
          LedgerBuy(a, p) =>
             /\ ret'.ok = ~(a <= 0 \/ a > paper_service.balance_clp)
             /\ ~ret'.ok => paper_service' = paper_service
             /\ ret'.ok =>
                   /\ Len(paper_service'.trades) = Len(paper_service.trades) + 1
                   /\ paper_service'.trade_counter = paper_service.trade_counter + 1]_vars

\* after one accepted buy of 5,000 a buy of more than the remaining
\* balance was turned away, and the ledger still shows the first buy only
C14_Witness ==
    /\ ret = Ret("execute_buy", FALSE)
    /\ Len(paper_service.trades) = 1
    /\ paper_service.trade_counter = 1
    /\ paper_service.balance_clp = 15000 * MoneyScale
    /\ paper_service.total_invested_clp = 5000 * MoneyScale

\* C15: an accepted execute_buy(amount, price) takes fee = amount * fee
\* rate and buys (amount - fee) / price, to the satoshi; it debits
\* balance_clp by the full amount, credits balance_btc by the BTC bought,
\* adds the amount to total_invested_clp and the BTC to total_btc_bought, and
\* the record it returns carries these values.  From a balance of 20,000 at
\* 0.8%, buying 5,000 at 90,000,000 CLP/BTC gives fee 40, net 4,960, balance
\* 15,000 and an average buy price of 90,000,000.
C15_BuyArithmetic ==
    [][\A a \in BuyAmounts, p \in Prices :
          (LedgerBuy(a, p) /\ ret'.ok) =>
             LET fee == PerMille(a, paper_service.fee_per_mille)
                 bought == paper_service'.balance_btc - paper_service.balance_btc
                 trade == paper_service'.trades[Len(paper_service'.trades)]
             IN  /\ bought * p <= a - fee
                 /\ a - fee < (bought + 1) * p
                 /\ paper_service'.balance_clp = paper_service.balance_clp - a
                 /\ paper_service'.total_invested_clp =
                       paper_service.total_invested_clp + a
                 /\ paper_service'.total_btc_bought =
                       paper_service.total_btc_bought + bought
                 /\ trade = [side |-> "buy", amount_btc |-> bought,
                             price_clp |-> p, amount_clp |-> a, fee_clp |-> fee,
                             balance_clp_after |-> paper_service'.balance_clp,
                             balance_btc_after |-> paper_service'.balance_btc]
                 /\ (/\ paper_service = NewPaperService
                     /\ a = 5000 * MoneyScale
                     /\ p = 900) =>
                       /\ fee = 40 * MoneyScale
                       /\ a - fee = 4960 * MoneyScale
                       /\ bought = 5511
                       /\ paper_service'.balance_clp = 15000 * MoneyScale
                       /\ paper_service'.avg_buy_price = 900]_vars

\* the ledger after the buy of the example
C15_Witness ==
    /\ ret = Ret("execute_buy", TRUE)
    /\ paper_service.fee_per_mille = FeePerMille
    /\ paper_service.balance_clp = 15000 * MoneyScale
    /\ paper_service.balance_btc = 5511
    /\ paper_service.avg_buy_price = 900
    /\ paper_service.trades =
          <<BuyTrade(5511, 900, 5000 * MoneyScale, 40 * MoneyScale,
                     15000 * MoneyScale, 5511)>>

\* C16: execute_sell(amount, price) returns no trade and changes nothing
\* exactly when amount <= 0 or amount > balance_btc; an accepted sell
\* debits balance_btc by the amount, credits balance_clp by
\* net = amount * price - amount * price * fee rate, and appends one record
\* that carries the amount, the price, the net and the fee.
C16_SellArithmetic ==
    [][\A a \in SellAmounts(paper_service), p \in Prices :
          LedgerSell(a, p) =>
             LET gross == a * p
                 fee == PerMille(gross, paper_service.fee_per_mille)
                 net == gross - fee
             IN  /\ ret'.ok = ~(a <= 0 \/ a > paper_service.balance_btc)
                 /\ ~ret'.ok => paper_service' = paper_service
                 /\ ret'.ok =>
                       /\ paper_service'.balance_btc = paper_service.balance_btc - a
                       /\ paper_service'.balance_clp = paper_service.balance_clp + net
                       /\ paper_service'.trade_counter =
                             paper_service.trade_counter + 1
                       /\ paper_service'.trades =
                             Append(paper_service.trades,
                                    [side |-> "sell", amount_btc |-> a,
                                     price_clp |-> p, amount_clp |-> net,
                                     fee_clp |-> fee,
                                     balance_clp_after |-> paper_service'.balance_clp,
                                     balance_btc_after |-> paper_service'.balance_btc])]_vars

\* the whole BTC balance bought in the example was sold at 100,000,000
\* CLP/BTC: 5,511,000 gross, fee 44,088, net 5,466,912 (in 1/1000 CLP)
C16_Witness ==
    /\ ret = Ret("execute_sell", TRUE)
    /\ paper_service.fee_per_mille = FeePerMille
    /\ Len(paper_service.trades) = 2
    /\ paper_service.trades[2].side = "sell"
    /\ paper_service.trades[2].amount_btc = 5511
    /\ paper_service.trades[2].fee_clp = 44088
    /\ paper_service.balance_btc = 0
    /\ paper_service.balance_clp = 15000 * MoneyScale + 5466912

\* C17: after any sequence of execute_buy and execute_sell calls, accepted
\* or rejected, at positive prices and a fee rate between 0 and 100%, on a
\* ledger constructed with a non-negative balance, balance_clp >= 0 and
\* balance_btc >= 0.
C17_BalancesNonNegative ==
    /\ paper_service.balance_clp >= 0
    /\ paper_service.balance_btc >= 0

\* the whole CLP balance was spent in one buy, and then a sale of more BTC
\* than the ledger holds was turned away
C17_Witness ==
    /\ paper_service.balance_clp = 0
    /\ paper_service.balance_btc > 0
    /\ Len(paper_service.trades) = 1
    /\ ret = Ret("execute_sell", FALSE)

\* C18: execute_sell, accepted or rejected, leaves avg_buy_price,
\* total_btc_bought and total_invested_clp as they were before the call.
C18_SellKeepsAverage ==
    [][\A a \in SellAmounts(paper_service), p \in Prices :
          LedgerSell(a, p) =>
             /\ paper_service'.avg_buy_price = paper_service.avg_buy_price
             /\ paper_service'.total_btc_bought = paper_service.total_btc_bought
             /\ paper_service'.total_invested_clp =
                   paper_service.total_invested_clp]_vars

\* part of the BTC bought at 90,000,000 was sold at 100,000,000, and the
\* average buy price and the totals are those of the buy
C18_Witness ==
    /\ ret = Ret("execute_sell", TRUE)
    /\ Len(paper_service.trades) = 2
    /\ paper_service.trades[2].side = "sell"
    /\ paper_service.trades[2].price_clp = 1000
    /\ paper_service.balance_btc \in 1..5510
    /\ paper_service.avg_buy_price = 900
    /\ paper_service.total_btc_bought = 5511
    /\ paper_service.total_invested_clp = 5000 * MoneyScale

\* C19: an accepted buy sets avg_buy_price to
\* (total_btc_bought_old * avg_buy_price_old + btc_bought * price) /
\* total_btc_bought_new, to the price unit (and leaves it alone while no
\* BTC was ever bought); after any sequence of accepted buys it is, up to
\* one price unit per buy, the mean of the buy prices weighted by the BTC
\* bought; and a buy in one call and the same amount in two equal halves
\* at the same price give the same avg_buy_price up to one price unit.
C19_WeightedMean ==
    [][\A a \in BuyAmounts, p \in Prices :
          (LedgerBuy(a, p) /\ ret'.ok) =>
             LET old == paper_service
                 new == paper_service'
                 bought == new.balance_btc - old.balance_btc
                 weighted == old.total_btc_bought * old.avg_buy_price + bought * p
                 value[i \in 0..Len(new.trades)] ==
                     IF i = 0 THEN 0
                     ELSE value[i - 1] +
                          (IF new.trades[i].side = "buy"
                           THEN new.trades[i].amount_btc * new.trades[i].price_clp
                           ELSE 0)
                 buys == Cardinality({i \in 1..Len(new.trades) :
                                         new.trades[i].side = "buy"})
                 half == execute_buy(old, a \div 2, p)
                 halves == execute_buy(half.svc, a \div 2, p)
                 d == halves.svc.avg_buy_price - new.avg_buy_price
             IN  /\ IF new.total_btc_bought > 0
                    THEN /\ new.avg_buy_price * new.total_btc_bought <= weighted
                         /\ weighted < (new.avg_buy_price + 1) * new.total_btc_bought
                         /\ new.avg_buy_price * new.total_btc_bought
                               <= value[Len(new.trades)]
                         /\ value[Len(new.trades)]
                               < (new.avg_buy_price + buys) * new.total_btc_bought
                    ELSE new.avg_buy_price = old.avg_buy_price
                 /\ (a % 2 = 0 /\ half.ok /\ halves.ok) => d \in {-1, 0, 1}]_vars

\* buys at 80,000,000 and at 100,000,000 CLP/BTC left an average strictly
\* between the two prices
C19_Witness ==
    /\ ret = Ret("execute_buy", TRUE)
    /\ Len(paper_service.trades) = 2
    /\ paper_service.trades[1].side = "buy"
    /\ paper_service.trades[1].price_clp = 800
    /\ paper_service.trades[2].side = "buy"
    /\ paper_service.trades[2].price_clp = 1000
    /\ paper_service.avg_buy_price \in 801..999
    /\ paper_service.total_btc_bought =
          paper_service.trades[1].amount_btc + paper_service.trades[2].amount_btc

\* C20: validate_buy tests, in this order, the daily limit, the cooldown,
\* the minimum balance, the percentage ceiling and the fee impact; the
\* reason it returns is that of the first of these rules that fails, and
\* it approves exactly when none fails.
C20_FirstFailingRuleWins ==
    [][\A a \in RiskAmounts, b \in RiskBalances, p \in Prices :
          RiskValidateBuy(a, b, p) =>
             LET recent == {i \in 1..Len(risk_manager.daily_trades) :
                               risk_manager.daily_trades[i] > now - DayMinutes}
                 fee == PerMille(a, risk_manager.fee_per_mille)
                 fails == <<Cardinality(recent) >= MaxDailyTrades,
                            /\ risk_manager.last_trade_time # NoTime
                            /\ now - risk_manager.last_trade_time
                                  < TradeCooldownMinutes,
                            b - a < MinBalanceClp,
                            a > (b \div 100) * MaxSingleTradePct,
                            /\ a < FeeGuardAmountClp
                            /\ a > 0
                            /\ fee * 1000 > FeeGuardPerMille * a>>
                 reasons == <<{"daily_limit"}, {"cooldown"},
                              {"insufficient_balance", "exceeds_min_balance"},
                              {"exceeds_pct"}, {"fee_impact"}>>
                 failing == {i \in 1..5 : fails[i]}
             IN  /\ ret'.ok = (failing = {})
                 /\ failing = {} => ret'.reason = "approved"
                 /\ \A i \in failing :
                       (\A j \in failing : i <= j) => ret'.reason \in reasons[i]]_vars

\* with three trades in the last day, the last of them a moment ago, the
\* daily limit and the cooldown both fail and the rejection is that of the
\* daily limit
C20_Witness ==
    /\ ret = [op |-> "validate_buy", ok |-> FALSE, reason |-> "daily_limit"]
    /\ Len(risk_manager.daily_trades) = MaxDailyTrades
    /\ risk_manager.last_trade_time = now
    /\ now = TradeCooldownMinutes

\* C21: while MaxDailyTrades or more recorded trades are less than 24
\* hours old, validate_buy and validate_sell reject with the daily-limit
\* reason whatever the amount, balance and price; a trade that is 24 hours
\* old is pruned by the next validation, and with fewer than MaxDailyTrades
\* trades left the daily-limit rule does not reject.
C21_DailyLimit ==
    [][(\/ \E a \in RiskAmounts, b \in RiskBalances, p \in Prices :
              RiskValidateBuy(a, b, p)
        \/ \E a \in RiskSellAmounts, b \in RiskSellBalances, p \in Prices,
              avg \in AvgBuyPrices :
              RiskValidateSell(a, b, p, avg)) =>
          LET recent == {i \in 1..Len(risk_manager.daily_trades) :
                            now - risk_manager.daily_trades[i] < DayMinutes}
          IN  /\ Len(risk_manager'.daily_trades) = Cardinality(recent)
              /\ \A i \in 1..Len(risk_manager'.daily_trades) :
                    now - risk_manager'.daily_trades[i] < DayMinutes
              /\ (ret'.reason = "daily_limit") =
                    (Cardinality(recent) >= MaxDailyTrades)
              /\ Cardinality(recent) >= MaxDailyTrades => ~ret'.ok]_vars

\* the trades recorded half an hour after the start are exactly 24 hours
\* old: the validation pruned them all and approved the buy
C21_Witness ==
    /\ ret = [op |-> "validate_buy", ok |-> TRUE, reason |-> "approved"]
    /\ now = TradeCooldownMinutes + DayMinutes
    /\ risk_manager.last_trade_time = TradeCooldownMinutes
    /\ risk_manager.daily_trades = <<>>

\* C22: with fewer than MaxDailyTrades trades in the last 24 hours, a
\* validate_buy or validate_sell is rejected for cooldown exactly when a
\* trade was recorded less than TradeCooldownMinutes ago; once that time
\* has passed the request gets the answer a Risk Manager without history
\* gives it, so a request that only the cooldown held back is approved.
C22_Cooldown ==
    [][LET recent == {i \in 1..Len(risk_manager.daily_trades) :
                         now - risk_manager.daily_trades[i] < DayMinutes}
           cooling == /\ risk_manager.last_trade_time # NoTime
                      /\ now - risk_manager.last_trade_time < TradeCooldownMinutes
           fresh == [risk_manager EXCEPT !.last_trade_time = NoTime,
                                         !.daily_trades = <<>>]
       IN  /\ \A a \in RiskAmounts, b \in RiskBalances, p \in Prices :
                 (RiskValidateBuy(a, b, p) /\ Cardinality(recent) < MaxDailyTrades) =>
                    /\ (ret'.reason = "cooldown") = cooling
                    /\ cooling => ~ret'.ok
                    /\ ~cooling =>
                          ret'.ok = validate_buy(fresh, a, b, p, now).approved
           /\ \A a \in RiskSellAmounts, b \in RiskSellBalances, p \in Prices,
                 avg \in AvgBuyPrices :
                 (RiskValidateSell(a, b, p, avg)
                    /\ Cardinality(recent) < MaxDailyTrades) =>
                    /\ (ret'.reason = "cooldown") = cooling
                    /\ cooling => ~ret'.ok
                    /\ ~cooling =>
                          ret'.ok = validate_sell(fresh, a, b, p, avg, now).approved]_vars

\* exactly TradeCooldownMinutes after the one trade recorded, a sell was
\* approved
C22_Witness ==
    /\ ret = [op |-> "validate_sell", ok |-> TRUE, reason |-> "approved"]
    /\ risk_manager.last_trade_time = 0
    /\ risk_manager.daily_trades = <<0>>
    /\ now = TradeCooldownMinutes

\* C23: validate_sell never approves a sell below the average buy price:
\* with current_price < avg_buy_price it returns approved = false for every
\* amount, balance and Risk Manager history.
C23_NoSellBelowAverage ==
    [][\A a \in RiskSellAmounts, b \in RiskSellBalances, p \in Prices,
          avg \in AvgBuyPrices :
          (RiskValidateSell(a, b, p, avg) /\ p < avg) => ~ret'.ok]_vars

\* a sell that the other rules let through was turned down for its price
C23_Witness ==
    /\ ret = [op |-> "validate_sell", ok |-> FALSE, reason |-> "hodl"]
    /\ risk_manager.last_trade_time # NoTime
    /\ now - risk_manager.last_trade_time >= TradeCooldownMinutes
    /\ Len(risk_manager.daily_trades) \in 1..(MaxDailyTrades - 1)

\* C24: analyze decides in this order: an RSI above RsiOverbought gives
\* hold; otherwise an RSI below RsiOversold gives buy with the smaller of
\* base_amount_pct + accelerate_amount_pct and AmountPctCap, so never more
\* than AmountPctCap; otherwise buy with base_amount_pct when no purchase
\* was recorded or at least DcaIntervalMinutes have passed since the last
\* one; otherwise hold.
C24_AnalyzeOrder ==
    [][\A rsi \in RsiValues :
          StrategyAnalyze(rsi) =>
             LET sum == strategy.base_amount_pct + strategy.accelerate_amount_pct
                 due == \/ strategy.last_buy_time = NoTime
                        \/ now - strategy.last_buy_time >= DcaIntervalMinutes
             IN  IF rsi > RsiOverbought THEN ret'.signal = "hold"
                 ELSE IF rsi < RsiOversold
                 THEN /\ ret'.signal = "buy"
                      /\ ret'.suggested_amount_pct <= AmountPctCap
                      /\ ret'.suggested_amount_pct <= sum
                      /\ ret'.suggested_amount_pct \in {sum, AmountPctCap}
                 ELSE IF due
                 THEN /\ ret'.signal = "buy"
                      /\ ret'.suggested_amount_pct = strategy.base_amount_pct
                 ELSE ret'.signal = "hold"]_vars

\* an oversold market met a configuration whose accelerated purchase is
\* above the cap, one minute before the next scheduled purchase
C24_Witness ==
    /\ ret.op = "analyze"
    /\ ret.rsi < RsiOversold
    /\ ret.signal = "buy"
    /\ ret.suggested_amount_pct = AmountPctCap
    /\ strategy.base_amount_pct + strategy.accelerate_amount_pct > AmountPctCap
    /\ strategy.last_buy_time # NoTime
    /\ now - strategy.last_buy_time = DcaIntervalMinutes - 1

\* C25: the strategy never returns a sell signal, so the engine never
\* executes a sell on the paper ledger: apart from start(), which builds a
\* new ledger, no step lowers balance_btc or raises balance_clp, and wins,
\* losses and total_profit_clp keep their initial values.
C25_NeverSells ==
    [][/\ stats'.last_signal # "sell"
       /\ stats'.wins = InitStats.wins
       /\ stats'.losses = InitStats.losses
       /\ stats'.total_profit_clp = InitStats.total_profit_clp
       /\ (paper_service.present
              /\ ~ \E s \in StrategyIds, p \in BOOLEAN : start(s, p)) =>
             /\ paper_service'.balance_btc >= paper_service.balance_btc
             /\ paper_service'.balance_clp <= paper_service.balance_clp]_vars

\* with BTC bought on the paper ledger, the next iteration only made the
\* engine hold
C25_Witness ==
    /\ paper_trading
    /\ paper_service.balance_btc > 0
    /\ stats.total_trades >= 1
    /\ stats.loop_count = MaxLoops
    /\ stats.last_signal = "hold"
    /\ stats.last_action = Act("hold", "none")

\* C26: in real mode a sell signal is validated with the average buy price
\* taken to be the current price: the iteration does what it would do on
\* a portfolio snapshot whose avg_buy_price is the current price.
C26_SellValidatedAtCurrentPrice ==
    [][\A signal \in Signals, m \in Market, b \in SignalBalances :
          LET counted == [stats EXCEPT !.loop_count = @ + 1]
              portfolio == build_portfolio_from_balances(
                               IF api_keys THEN b ELSE NoBalances)
              defaulted == [portfolio EXCEPT !.avg_buy_price = m.price]
          IN  (/\ ~paper_trading
               /\ signal.signal = "sell"
               /\ IterateOn(1, MaxSignalLoops)
               /\ Leave(1, process_signal(counted, signal, portfolio, m.price),
                        m.rsi, m.price)) =>
                 Leave(1, process_signal(counted, signal, defaulted, m.price),
                       m.rsi, m.price)]_vars

\* C27 (as stated): get_status changes nothing: no engine state, no stats
\* field, no ledger field and nothing of the Risk Manager's history.
C27_StatusReadOnly ==
    [][get_status =>
          UNCHANGED <<config, state, current_strategy, paper_trading, task,
                      should_run, exchange, paper_service, risk_manager,
                      strategy, stats, tasks, stops, now, ticks, quiet>>]_vars

\* C27 (amended): get_status changes no engine state, no stats field, no
\* ledger field and not last_trade_time; of daily_trades it drops exactly
\* the entries that are 24 hours old or older and keeps the others in
\* their order.
C27_StatusOnlyExpires ==
    [][get_status =>
          /\ UNCHANGED <<config, state, current_strategy, paper_trading, task,
                         should_run, exchange, paper_service, strategy, stats,
                         tasks, stops, now, ticks, quiet>>
          /\ risk_manager'.present = risk_manager.present
          /\ risk_manager'.last_trade_time = risk_manager.last_trade_time
          /\ risk_manager'.fee_per_mille = risk_manager.fee_per_mille
          /\ risk_manager'.daily_trades =
                SelectSeq(risk_manager.daily_trades,
                          LAMBDA t : now - t < DayMinutes)]_vars

\* the status was read while the engine was running, a day after its one
\* trade, and the trade is no longer among daily_trades
C27_Witness ==
    /\ ret.op = "get_status"
    /\ ret.daily_trades_used = 0
    /\ state = "running"
    /\ stats.total_trades = 1
    /\ risk_manager.last_trade_time = 0
    /\ risk_manager.daily_trades = <<>>
    /\ now = DayMinutes

\* C28: for every limit >= 0 and every ledger history,
\* get_trade_history(limit) returns at most limit records: the limit most
\* recently executed trades (all of them when there are fewer), newest
\* first.
C28_HistoryAtMostLimit ==
    [][\A limit \in HistoryLimits :
          (limit >= 0 /\ LedgerHistory(limit)) =>
             LET n == Len(paper_service.trades)
                 k == IF limit < n THEN limit ELSE n
             IN  /\ Len(ret'.trades) <= limit
                 /\ Len(ret'.trades) = k
                 /\ \A i \in 1..k :
                       ret'.trades[i] =
                           TradeDict(paper_service.trades[n + 1 - i], n + 1 - i)]_vars

\* C29 (as stated): an iteration whose signal is hold, or whose buy or
\* sell the Risk Manager rejects, leaves the ledger, last_trade_time, the
\* entries of daily_trades, the strategy, total_trades and errors as they
\* were, and sets last_action to "hold", or to "rejected: <reason>".
C29_NoEffectBeyondStats ==
    [][(/\ tasks[1].pc \in Resting
        /\ stats'.loop_count = stats.loop_count + 1
        /\ stats'.last_action.kind \in {"hold", "rejected", "sell_rejected"}) =>
       \A signal \in Signals, m \in Market, b \in SignalBalances :
          LET counted == [stats EXCEPT !.loop_count = @ + 1]
              portfolio == IF paper_trading
                           THEN get_portfolio(paper_service)
                           ELSE build_portfolio_from_balances(
                                    IF api_keys THEN b ELSE NoBalances)
              pct == signal.suggested_amount_pct
              buy == validate_buy(risk_manager,
                                  (portfolio.balance_clp * pct) \div 100,
                                  portfolio.balance_clp, m.price, now)
              sell == validate_sell(risk_manager,
                                    (portfolio.balance_btc * pct) \div 100,
                                    portfolio.balance_btc, m.price,
                                    portfolio.avg_buy_price, now)
              held == signal.signal = "hold"
              buy_rejected == signal.signal = "buy" /\ ~buy.approved
              sell_rejected == /\ signal.signal = "sell"
                               /\ portfolio.balance_btc > 0
                               /\ ~sell.raises
                               /\ ~sell.approved
          IN  (/\ (held \/ buy_rejected \/ sell_rejected)
               /\ Leave(1, process_signal(counted, signal, portfolio, m.price),
                        m.rsi, m.price)) =>
                 /\ paper_service' = paper_service
                 /\ strategy' = strategy
                 /\ risk_manager'.last_trade_time = risk_manager.last_trade_time
                 /\ stats'.total_trades = stats.total_trades
                 /\ stats'.errors = stats.errors
                 /\ risk_manager'.daily_trades = risk_manager.daily_trades
                 /\ stats'.last_action =
                       IF held THEN Act("hold", "none")
                       ELSE IF buy_rejected THEN Act("rejected", buy.reason)
                       ELSE Act("rejected", sell.reason)]_vars

\* C29 (amended): such an iteration leaves the ledger, last_trade_time, the
\* strategy, total_trades and errors as they were; a hold leaves
\* daily_trades alone, a rejection drops from it the entries that are 24
\* hours old or older; last_action becomes "hold", "rejected: <reason>"
\* for a buy and "sell_rejected: <reason>" for a sell.
C29_RejectionOnlyExpires ==
    [][(/\ tasks[1].pc \in Resting
        /\ stats'.loop_count = stats.loop_count + 1
        /\ stats'.last_action.kind \in {"hold", "rejected", "sell_rejected"}) =>
       \A signal \in Signals, m \in Market, b \in SignalBalances :
          LET counted == [stats EXCEPT !.loop_count = @ + 1]
              portfolio == IF paper_trading
                           THEN get_portfolio(paper_service)
                           ELSE build_portfolio_from_balances(
                                    IF api_keys THEN b ELSE NoBalances)
              pct == signal.suggested_amount_pct
              buy == validate_buy(risk_manager,
                                  (portfolio.balance_clp * pct) \div 100,
                                  portfolio.balance_clp, m.price, now)
              sell == validate_sell(risk_manager,
                                    (portfolio.balance_btc * pct) \div 100,
                                    portfolio.balance_btc, m.price,
                                    portfolio.avg_buy_price, now)
              held == signal.signal = "hold"
              buy_rejected == signal.signal = "buy" /\ ~buy.approved
              sell_rejected == /\ signal.signal = "sell"
                               /\ portfolio.balance_btc > 0
                               /\ ~sell.raises
                               /\ ~sell.approved
          IN  (/\ (held \/ buy_rejected \/ sell_rejected)
               /\ Leave(1, process_signal(counted, signal, portfolio, m.price),
                        m.rsi, m.price)) =>
                 /\ paper_service' = paper_service
                 /\ strategy' = strategy
                 /\ risk_manager'.last_trade_time = risk_manager.last_trade_time
                 /\ stats'.total_trades = stats.total_trades
                 /\ stats'.errors = stats.errors
                 /\ risk_manager'.daily_trades =
                       IF held THEN risk_manager.daily_trades
                       ELSE SelectSeq(risk_manager.daily_trades,
                                      LAMBDA t : now - t < DayMinutes)
                 /\ stats'.last_action =
                       IF held THEN Act("hold", "none")
                       ELSE IF buy_rejected THEN Act("rejected", buy.reason)
                       ELSE Act("sell_rejected", sell.reason)]_vars

\* a day after the one trade, a buy was rejected and the trade is no
\* longer among daily_trades
C29_Witness ==
    /\ stats.last_action.kind = "rejected"
    /\ stats.last_signal = "buy"
    /\ stats.loop_count = MaxStatusLoops
    /\ stats.total_trades = 1
    /\ risk_manager.last_trade_time = 0
    /\ risk_manager.daily_trades = <<>>
    /\ now = DayMinutes

\* C30: at most one control loop is alive at any time: there are never two
\* loop tasks that have not been cancelled, so two loops never run
\* iterations side by side.
C30_SingleLoop ==
    Cardinality({t \in 1..MaxTasks : Alive(t) /\ ~tasks[t].cancel}) <= 1

\* C31: the loop can be cancelled only where it is suspended, and there a
\* paper trade's bookkeeping is never half done: in paper mode, in every
\* state, the Risk Manager holds one entry per ledger trade and a last
\* trade time exactly when the ledger has a trade, the strategy has a last
\* buy time exactly when the ledger has a buy, and total_trades goes up by
\* one in exactly the steps that add a ledger trade.
C31_BookkeepingWhole ==
    [][(paper_trading /\ paper_trading') =>
          LET trades == paper_service'.trades
          IN  /\ Len(risk_manager'.daily_trades) = Len(trades)
              /\ (risk_manager'.last_trade_time = NoTime) = (trades = <<>>)
              /\ (strategy'.last_buy_time # NoTime) =
                    (\E i \in 1..Len(trades) : trades[i].side = "buy")
              /\ (Len(trades) = Len(paper_service.trades) + 1) =
                    (stats'.total_trades = stats.total_trades + 1)]_vars

\* stop() cancelled the loop of a paper engine after its one buy, and the
\* buy is in the ledger, in the Risk Manager, in the strategy and counted
C31_Witness ==
    /\ paper_trading
    /\ state = "stopped"
    /\ ret = Ret("stop", TRUE)
    /\ tasks[1].pc = "none"
    /\ Len(paper_service.trades) = 1
    /\ paper_service.trades[1].side = "buy"
    /\ risk_manager.daily_trades = <<0>>
    /\ risk_manager.last_trade_time = 0
    /\ strategy.last_buy_time = 0
    /\ stats.total_trades = 1

\* C32: while settings.TRADING_ENABLED is false the engine submits no
\* order to the exchange: in every state the paper flag is true, and no
\* loop task is waiting for exchange balances or for an order.
C32_NoOrderWhenDisabled ==
    ~trading_enabled =>
        /\ paper_trading
        /\ \A t \in 1..MaxTasks : tasks[t].pc \notin {"balances", "order"}
        /\ \A t \in 1..MaxTasks : tasks[t].side = "none"

\* with real trading disabled and API keys set, a paper run traded, was
\* stopped, and a start in real mode was then refused
C32_Witness ==
    /\ ~trading_enabled
    /\ api_keys
    /\ paper_trading
    /\ state = "stopped"
    /\ ret = Ret("start", FALSE)
    /\ stats.total_trades >= 1

\* C33: within a run the Risk Manager, built anew by each start(), never
\* holds more than MaxDailyTrades trade times, and no two trades of the run
\* are less than TradeCooldownMinutes apart.
C33_RiskLimitsHold ==
    risk_manager.present =>
        /\ Len(risk_manager.daily_trades) <= MaxDailyTrades
        /\ \A i, j \in 1..Len(risk_manager.daily_trades) :
              i < j => risk_manager.daily_trades[j] - risk_manager.daily_trades[i]
                          >= TradeCooldownMinutes

\* C34: in paper mode the ledger's balance_clp never drops below
\* MinBalanceClp, whatever loop iterations have run.
C34_MinBalanceKept ==
    (paper_trading /\ paper_service.present) =>
        paper_service.balance_clp >= MinBalanceClp

\* C35: in paper mode the ledger never turns down what the Risk Manager
\* approved: an iteration whose buy (of balance_clp * suggested_amount_pct)
\* or sell (of balance_btc * suggested_amount_pct) is approved adds a
\* trade record to the ledger.
C35_ApprovedIsExecuted ==
    [][(/\ paper_trading
        /\ tasks[1].pc \in Resting
        /\ stats'.loop_count = stats.loop_count + 1) =>
       \A signal \in Signals, m \in Market :
          LET counted == [stats EXCEPT !.loop_count = @ + 1]
              portfolio == get_portfolio(paper_service)
              pct == signal.suggested_amount_pct
              buy == validate_buy(risk_manager,
                                  (portfolio.balance_clp * pct) \div 100,
                                  portfolio.balance_clp, m.price, now)
              sell == validate_sell(risk_manager,
                                    (portfolio.balance_btc * pct) \div 100,
                                    portfolio.balance_btc, m.price,
                                    portfolio.avg_buy_price, now)
              approved == \/ signal.signal = "buy" /\ buy.approved
                          \/ /\ signal.signal = "sell"
                             /\ portfolio.balance_btc > 0
                             /\ sell.approved
          IN  (/\ approved
               /\ Leave(1, process_signal(counted, signal, portfolio, m.price),
                        m.rsi, m.price)) =>
                 Len(paper_service'.trades) = Len(paper_service.trades) + 1]_vars

\* C36 (as stated): in paper mode total_trades equals the number of trade
\* records in the ledger, in every state.
C36_TotalEqualsLedger ==
    (paper_trading /\ paper_service.present) =>
        stats.total_trades = Len(paper_service.trades)

\* C36 (amended): total_trades is never reset: no step lowers it and a
\* start() leaves it alone, while a start() in paper mode that gets past
\* its guards replaces the ledger by one without trades; every step that
\* adds a record to the ledger adds one to total_trades, so the ledger
\* never holds more records than total_trades.
C36_TotalAtLeastLedger ==
    [][/\ stats'.total_trades >= stats.total_trades
       /\ Len(paper_service'.trades) <= stats'.total_trades
       /\ Len(paper_service'.trades) = Len(paper_service.trades) + 1 =>
             stats'.total_trades = stats.total_trades + 1
       /\ \A s \in StrategyIds, p \in BOOLEAN :
             start(s, p) =>
                /\ stats'.total_trades = stats.total_trades
                /\ (p /\ StateAllowsStart) => paper_service' = NewPaperService]_vars

\* a paper run bought once and was stopped, and the engine was started
\* again in paper mode: one trade counted, none in the ledger
C36_Witness ==
    /\ paper_trading
    /\ state = "running"
    /\ ret = Ret("start", TRUE)
    /\ stats.total_trades = 1
    /\ paper_service = NewPaperService

\* C37: the error count is cumulative over the life of the engine: no
\* step lowers it, start() and stop() leave it as it is, and once it is
\* above ErrorThreshold every further exception, also the first one of a
\* loop launched by a new start(), puts the engine in Error and ends the
\* loop.
C37_ErrorsCumulative ==
    [][/\ stats'.errors >= stats.errors
       /\ (start("smart_dca", TRUE) \/ stop \/ StopJoined(1) \/ StopClosed(1)) =>
             stats'.errors = stats.errors
       /\ (FetchRaises(1) /\ stats.errors > ErrorThreshold) =>
             /\ stats'.errors = stats.errors + 1
             /\ state' = "error"
             /\ task' = "done"
             /\ tasks'[1].pc = "none"]_vars

\* restarted from the Error that the eleventh exception caused, the engine
\* is in Error again after the first exception of the new loop
C37_Witness ==
    /\ state = "error"
    /\ stats.errors = ErrorThreshold + 2
    /\ stats.loop_count = ErrorThreshold + 2
    /\ stats.last_action = Act("error", "none")
    /\ task = "done"

\* C38: the ledger conserves CLP and BTC: after any execute_buy and
\* execute_sell calls balance_clp is the initial balance less the
\* amount_clp of the buys plus the net proceeds of the sells,
\* total_invested_clp is the amount_clp of the buys, and balance_btc is
\* the BTC bought less the BTC sold.
C38_LedgerConserves ==
    LET trades == paper_service.trades
    IN  /\ paper_service.balance_clp =
              PaperInitialBalanceClp - SumClp(trades, "buy") + SumClp(trades, "sell")
        /\ paper_service.total_invested_clp = SumClp(trades, "buy")
        /\ paper_service.total_btc_bought = SumBtc(trades, "buy")
        /\ paper_service.balance_btc =
              SumBtc(trades, "buy") - SumBtc(trades, "sell")

\* two buys and a sell were accepted by a ledger that charges the fee
C38_Witness ==
    /\ paper_service.fee_per_mille = FeePerMille
    /\ Len(paper_service.trades) = MaxTrades
    /\ paper_service.trades[1].side = "buy"
    /\ paper_service.trades[2].side = "buy"
    /\ paper_service.trades[3].side = "sell"
    /\ paper_service.trades[3].fee_clp > 0
    /\ ret = Ret("execute_sell", TRUE)

\* C39: with the rule against selling below the average buy price, every
\* sell the engine executes in paper mode has a realized profit (net
\* proceeds less amount_btc * avg_buy_price) that is not negative: losses
\* never goes up and total_profit_clp never goes down.
C39_NoLossRealized ==
    [][paper_trading =>
          /\ stats'.losses = stats.losses
          /\ stats'.total_profit_clp >= stats.total_profit_clp]_vars

====
